---- MODULE Spec2Model ----
(***************************************************************************)
(* Model of the collection and enrichment pipeline of the Bilibili content *)
(* analyzer: BilibiliDataCollector.collect_keyword_data, collect_all_data  *)
(* and enhance_video_data (src/src/bilibili_analyzer/data_collector.py),   *)
(* driven as in BilibiliAnalyzer.collect_only (main.py): Spec; with the     *)
(* interrupt signal: InterruptSpec.                                        *)
(* RunSpec is one run of the command line (cli.py main) over the modes and *)
(* flags, with the collection summarised by the frame it returns.          *)
(* UnitSpec applies the functions of the collector and of DataAnalyzer     *)
(* (data_analyzer.py) one at a time to arguments drawn from bounded sets.  *)
(***************************************************************************)
EXTENDS Integers, Sequences, FiniteSets, TLC

\* ---------------------------------------------------------------- config.py
start_year == 2019
end_year == 2025
start_timestamp == 1546272000
end_timestamp == 1767225600
request_delay == 1

\* The configured keyword list, cut down to its first two entries.
SEARCH_KEYWORDS == <<"kw1", "kw2">>

\* Bounds of the model (the program's values are 20 and 1000; the page size
\* is whatever the search endpoint returns).
max_pages == 2
max_results_per_keyword == 2
MaxItems == 2

\* ------------------------------------------------------------- dictionaries
\* dict.get(key, default)
Get(d, k, default) == IF k \in DOMAIN d THEN d[k] ELSE default

\* ------------------------------------------------------------- Python values
\* Where the code looks at the type of a value (a response body, its data and
\* result parts, a result group, the stat and owner parts of a detail, the
\* owner of an item), the value carries its type; numbers and texts elsewhere
\* stand for themselves.
None == [t |-> "NoneType"]
Dict(d) == [t |-> "dict", v |-> d]
List(s) == [t |-> "list", v |-> s]
Str(s) == [t |-> "str", v |-> s]
Num(n) == [t |-> "int", v |-> n]

isinstance(x, type) == x.t = type

\* ------------------------------------------------------ the remote endpoints
\* The videos the search endpoint knows, each with its own dates.
Video1 == [bvid |-> "BV1", pubdate |-> start_timestamp, created |-> 0, play |-> 10]
Video2 == [bvid |-> "BV2", pubdate |-> 0, created |-> end_timestamp, play |-> 10]
Video3 == [bvid |-> "BV3", pubdate |-> end_timestamp + 1, created |-> start_timestamp, play |-> 10]
Video4 == [bvid |-> "BV4", pubdate |-> 0, created |-> start_timestamp - 1, play |-> 10]

\* An item that has no bvid key.
NoBvidItem == [pubdate |-> end_timestamp, created |-> 0, play |-> 10]

\* An item that is no mapping at all (the record stands for a value without .get).
MalformedItem == [not_a_mapping |-> TRUE]

\* The raw items a search for a keyword can return: the two keywords find
\* different videos, and both find Video1.
RawItems(keyword) ==
    IF keyword = SEARCH_KEYWORDS[1]
    THEN { Video1, Video3, MalformedItem }
    ELSE { Video1, Video2, Video4, NoBvidItem }

RECURSIVE SeqsUpTo(_, _)
SeqsUpTo(S, n) ==
    IF n = 0 THEN { <<>> }
    ELSE LET shorter == SeqsUpTo(S, n - 1)
         IN  shorter \cup { Append(s, x) : s \in { q \in shorter : Len(q) = n - 1 }, x \in S }

\* What search_videos returns for a response with code 0: {'result': [...]}.
SearchPages(keyword) == { s \in SeqsUpTo(RawItems(keyword), MaxItems) : s # <<>> }

\* The data part of a successful detail response: with or without stat.view.
DetailInfos ==
    { [stat |-> Dict([view |-> 99]), duration |-> 300],
      [stat |-> Dict([danmaku |-> 1])] }

\* ------------------------------------------- search_videos, get_video_info
\* The failure value {} of search_videos, get_video_info, extract_video_data.
EmptyDict == <<>>

\* Python truth of a dict: it has a key.
Truthy(d) == DOMAIN d # {}

\* How a call ends: it returns a value, or an exception leaves it.
Return(value) == [kind |-> "return", value |-> value]
Raise(exception) == [kind |-> "raise", exception |-> exception]

\* A response body that is no JSON text.
NotJson == [t |-> "not json"]

\* Lines 87-90 and 131-134: what session.get, raise_for_status and
\* response.json raise for the response, "" when they raise nothing.
\* requests raises its own JSONDecodeError, a RequestException.
RequestError(response) ==
    IF response.transport # "ok" THEN "RequestException"
    ELSE IF response.status >= 400 THEN "HTTPError"
    ELSE IF response.body = NotJson THEN "JSONDecodeError"
    ELSE ""

\* Lines 91 and 135: data.get('code') == 0.
CodeIsZero(data) == "code" \in DOMAIN data.v /\ data.v.code = 0

\* item.get('data', []) of lines 98 and 103.
GroupItems(item) == Get(item.v, "data", List(<<>>))

\* Lines 96-98: the groups are visited in order; the first one tagged video
\* ends the search, a group that is no mapping met before it raises.
RECURSIVE FindVideoGroup(_, _)
FindVideoGroup(groups, i) ==
    IF i > Len(groups) THEN [found |-> FALSE, raised |-> FALSE]
    ELSE IF ~isinstance(groups[i], "dict") THEN [found |-> FALSE, raised |-> TRUE]
    ELSE IF Get(groups[i].v, "result_type", "") = "video"
    THEN [found |-> TRUE, raised |-> FALSE, group |-> groups[i]]
    ELSE FindVideoGroup(groups, i + 1)

\* The first group is returned whatever its tag.
SearchResult_first_group(groups) ==
    IF groups = <<>> THEN Return(Dict([result |-> List(<<>>)]))
    ELSE IF ~isinstance(groups[1], "dict") THEN Raise("AttributeError")
    ELSE Return(Dict([result |-> GroupItems(groups[1])]))

\* Lines 96-105 for a result part that is a list.
SearchResult(groups) ==
    LET video == FindVideoGroup(groups, 1)
    IN  IF video.raised THEN Raise("AttributeError")
        ELSE IF video.found THEN Return(Dict([result |-> GroupItems(video.group)]))
        ELSE IF groups # <<>> THEN Return(Dict([result |-> GroupItems(groups[1])]))
        ELSE Return(Dict([result |-> List(<<>>)]))

\* Lines 93-105: the body has code 0. ('result' in result_data is a substring
\* or an element test for a text or a list, false for the ones modelled.)
SearchData(data) ==
    LET result_data == Get(data.v, "data", Dict(EmptyDict))
    IN  CASE result_data.t \in {"NoneType", "int"} -> Raise("TypeError")
          [] result_data.t \in {"list", "str"} -> Return(Dict([result |-> List(<<>>)]))
          [] result_data.t = "dict" ->
               IF "result" \notin DOMAIN result_data.v
               THEN Return(Dict([result |-> List(<<>>)]))
               ELSE LET result == result_data.v.result
                    IN  CASE result.t \in {"NoneType", "int"} -> Raise("TypeError")
                          [] result.t = "str" ->
                               IF result.v = ""
                               THEN Return(Dict([result |-> List(<<>>)]))
                               ELSE Raise("AttributeError")
                          [] result.t = "dict" ->
                               IF DOMAIN result.v = {}
                               THEN Return(Dict([result |-> List(<<>>)]))
                               ELSE Raise("AttributeError")
                          [] result.t = "list" -> SearchResult(result.v)

\* Lines 85-115: the request errors are caught; what the handling of the
\* body raises (a body, data or result part of the wrong type) is not.
search_videos(response) ==
    IF RequestError(response) # "" THEN Return(Dict(EmptyDict))
    ELSE IF ~isinstance(response.body, "dict") THEN Raise("AttributeError")
    ELSE IF ~CodeIsZero(response.body) THEN Return(Dict(EmptyDict))
    ELSE SearchData(response.body)

\* Lines 129-146.
get_video_info(response) ==
    IF RequestError(response) # "" THEN Return(Dict(EmptyDict))
    ELSE IF ~isinstance(response.body, "dict") THEN Raise("AttributeError")
    ELSE IF ~CodeIsZero(response.body) THEN Return(Dict(EmptyDict))
    ELSE Return(Get(response.body.v, "data", Dict(EmptyDict)))

\* ------------------------------------------------------- extract_video_data

\* Lines 160-161: the highlight markup is taken out of the title.
CleanTitle(title) ==
    CASE title = "<em class=\"keyword\">kw</em> guide" -> "kw guide"
      [] title = "a </em>b" -> "a b"
      [] OTHER -> title

\* Lines 163-172: the flat author when the item has one, else the nested
\* owner's name (str(owner) when the owner is no mapping).
ItemAuthor(video_item) ==
    IF "author" \in DOMAIN video_item
    THEN video_item.author
    ELSE IF "owner" \in DOMAIN video_item
    THEN (IF isinstance(video_item.owner, "dict")
          THEN Get(video_item.owner.v, "name", "")
          ELSE video_item.owner.v)
    ELSE ""

\* A counter the item lacks is set to -1.
ItemCounter_wrong_default(video_item, key) == Get(video_item, key, -1)

\* video_item.get(key, 0) for the counters of lines 184-190.
ItemCounter(video_item, key) == Get(video_item, key, 0)

\* Lines 158-202; an item without .get raises inside the try and gives {}.
extract_video_data(video_item) ==
    IF "not_a_mapping" \in DOMAIN video_item
    THEN EmptyDict
    ELSE [ bvid        |-> Get(video_item, "bvid", ""),
           aid         |-> Get(video_item, "aid", 0),
           title       |-> CleanTitle(Get(video_item, "title", "")),
           author      |-> ItemAuthor(video_item),
           mid         |-> Get(video_item, "mid", 0),
           description |-> Get(video_item, "description", ""),
           duration    |-> Get(video_item, "duration", ""),
           pubdate     |-> Get(video_item, "pubdate", 0),
           created     |-> Get(video_item, "created", 0),
           view        |-> ItemCounter(video_item, "play"),
           danmaku     |-> ItemCounter(video_item, "video_review"),
           reply       |-> ItemCounter(video_item, "review"),
           favorite    |-> ItemCounter(video_item, "favorites"),
           coin        |-> ItemCounter(video_item, "coins"),
           like        |-> ItemCounter(video_item, "like"),
           share       |-> ItemCounter(video_item, "share"),
           tag         |-> Get(video_item, "tag", ""),
           typeid      |-> Get(video_item, "typeid", 0),
           typename    |-> Get(video_item, "typename", ""),
           pic         |-> Get(video_item, "pic", ""),
           arcurl      |-> Get(video_item, "arcurl", ""),
           pts         |-> Get(video_item, "pts", 0),
           arcrank     |-> Get(video_item, "arcrank", ""),
           badgepay    |-> Get(video_item, "badgepay", FALSE) ]

\* Lines 262-267: every item of the page is extracted; what is extracted is
\* stamped with the keyword and the time and appended.
RECURSIVE ExtractPage(_, _, _)
ExtractPage(videos, keyword, t) ==
    IF videos = <<>> THEN <<>>
    ELSE LET video_data == extract_video_data(Head(videos))
         IN  (IF Truthy(video_data)
              THEN << [search_keyword |-> keyword, collected_at |-> t] @@ video_data >>
              ELSE <<>>)
             \o ExtractPage(Tail(videos), keyword, t)

\* ----------------------------------------------------------- filter_by_date
EffectiveTimestamp(video) ==
    IF video.pubdate > 0 THEN video.pubdate ELSE video.created

InWindow_exclusive(video, start, end) ==
    start < EffectiveTimestamp(video) /\ EffectiveTimestamp(video) < end

InWindow(video, start, end) ==
    start <= EffectiveTimestamp(video) /\ EffectiveTimestamp(video) <= end

RECURSIVE filter_by_date(_, _, _)
filter_by_date(videos, start, end) ==
    IF videos = <<>> THEN <<>>
    ELSE (IF InWindow(Head(videos), start, end) THEN << Head(videos) >> ELSE <<>>)
         \o filter_by_date(Tail(videos), start, end)

\* ------------------------------------- DataFrame.drop_duplicates(['bvid'])
\* The merge without the dedup.
drop_duplicates_none(rows) == rows

\* keep='first' instead of keep='last'.
RECURSIVE drop_duplicates_first(_)
drop_duplicates_first(rows) ==
    IF rows = <<>> THEN <<>>
    ELSE LET n    == Len(rows)
             init == SubSeq(rows, 1, n - 1)
         IN  drop_duplicates_first(init)
             \o (IF \E j \in 1..(n - 1) : rows[j].bvid = rows[n].bvid
                 THEN <<>> ELSE << rows[n] >>)

\* keep='last': a row survives when no later row has its bvid.
RECURSIVE drop_duplicates(_)
drop_duplicates(rows) ==
    IF rows = <<>> THEN <<>>
    ELSE (IF \E j \in 2..Len(rows) : rows[j].bvid = Head(rows).bvid
          THEN <<>> ELSE << Head(rows) >>)
         \o drop_duplicates(Tail(rows))

\* --------------------------------------------- enhance_video_data, the merge
\* video_info.get(part, {}) of lines 369-381, as a mapping.
Part(video_info, part) == Get(video_info, part, Dict(EmptyDict)).v

\* A field the detail lacks is set to 0.
Detail_default_zero(video_info, part, key, prior) ==
    Get(Part(video_info, part), key, 0)

\* video_info.get(part, {}).get(key, prior).
Detail(video_info, part, key, prior) ==
    Get(Part(video_info, part), key, prior)

\* Lines 365-392: row.to_dict() with the detail values laid over it.
EnhancedRow(row, video_info) ==
    [ view             |-> Detail(video_info, "stat", "view", row.view),
      danmaku          |-> Detail(video_info, "stat", "danmaku", row.danmaku),
      reply            |-> Detail(video_info, "stat", "reply", row.reply),
      favorite         |-> Detail(video_info, "stat", "favorite", row.favorite),
      coin             |-> Detail(video_info, "stat", "coin", row.coin),
      like             |-> Detail(video_info, "stat", "like", row.like),
      share            |-> Detail(video_info, "stat", "share", row.share),
      duration_seconds |-> Get(video_info, "duration", 0),
      cid              |-> Get(video_info, "cid", 0),
      pages            |-> Get(video_info, "pages", 1),
      owner_name       |-> Detail(video_info, "owner", "name", row.author),
      owner_mid        |-> Detail(video_info, "owner", "mid", row.mid),
      owner_face       |-> Detail(video_info, "owner", "face", ""),
      tname            |-> Get(video_info, "tname", row.typename),
      copyright        |-> Get(video_info, "copyright", 0),
      desc             |-> Get(video_info, "desc", row.description),
      dynamic          |-> Get(video_info, "dynamic", ""),
      subtitle         |-> Get(video_info, "subtitle", Dict(EmptyDict)),
      staff            |-> Get(video_info, "staff", List(<<>>)),
      argue_info       |-> Get(video_info, "argue_info", Dict(EmptyDict)),
      honor_reply      |-> Get(video_info, "honor_reply", Dict(EmptyDict)) ]
    @@ row

\* -------------------------------------------------------------------- state
VARIABLES
    pc,             \* where the run is: "collect", "filter", "merge", "merged",
                    \* "enhance", "done"; "exit" once the process has ended
    kw,             \* index of the keyword being collected (the for loop of collect_all_data)
    page,           \* collect_keyword_data: page
    all_videos,     \* collect_keyword_data: all_videos
    all_data,       \* collect_all_data: all_data
    keyword_data,   \* collect_all_data: what collect_keyword_data returned, per
                    \* keyword index
    keyword_files,  \* per keyword index: how often its file <keyword>_data.csv
                    \* has been written (its rows are keyword_data at the write;
                    \* nothing reads them back)
    df,             \* the DataFrame collect_all_data returns
    idx,            \* enhance_video_data: position of df.iterrows()
    enhanced_data,  \* enhance_video_data: enhanced_data
    csv,            \* the merged and the enriched file, once written: name -> rows
    now,            \* int(time.time())
    requested,      \* a network request has been issued in this run
    slept,          \* time.sleep(request_delay) has run since the last request
    searched,       \* the <<keyword index, page>> search requests this call of
                    \* collect_all_data has issued
    stop,           \* in this call, per keyword: why and on which page its loop ended
    detail_calls,   \* the df positions get_video_info was called for
    failed_rows,    \* the df positions whose detail call failed or raised
    fn,             \* a function applied on its own: its name ("" in a pipeline run)
    arg,            \* its argument
    ret,            \* how the call ended, NoCall before it has
    argv,           \* cli.py: args.mode, args.force_recollect, args.dry_run
    dirs,           \* the directories that exist
    denied,         \* the paths the system refuses to create or open for writing
    written,        \* the files this run has created or opened for writing
    refused,        \* the paths this run failed to create or to open for writing
    log,            \* what the run reports: phase results, the closing message
    exit_status,    \* <<>> while the process runs, << status >> once it has ended
    interrupted     \* the interrupt signal (KeyboardInterrupt) was delivered

vars == << pc, kw, page, all_videos, all_data, keyword_data, keyword_files, df, idx,
           enhanced_data, csv, now, requested, slept, searched, stop,
           detail_calls, failed_rows, fn, arg, ret,
           argv, dirs, denied, written, refused, log, exit_status, interrupted >>

NumKeywords == Len(SEARCH_KEYWORDS)

AllVideosFile == << "data/raw", "all_videos_data" >>
EnhancedFile == << "data/processed", "enhanced_videos_data" >>

NotStopped == [cause |-> "none", page |-> 0]

NoCall == [kind |-> "none"]

\* config.py DATA_STORAGE.
DATA_STORAGE ==
    [ raw_data_dir |-> "data/raw", processed_data_dir |-> "data/processed",
      output_dir |-> "output", logs_dir |-> "logs" ]

\* The directories of DATA_STORAGE and the charts directory of the Visualizer.
StorageDirs == { DATA_STORAGE[k] : k \in DOMAIN DATA_STORAGE } \cup { "output/charts" }

\* A forced run of the collect mode, in a file system that refuses nothing.
CollectRun ==
    /\ argv = [mode |-> "collect", force_recollect |-> TRUE, dry_run |-> FALSE]
    /\ dirs = StorageDirs
    /\ denied = {}
    /\ written = {}
    /\ refused = {}
    /\ log = <<>>
    /\ exit_status = <<>>
    /\ interrupted = FALSE

RunUnchanged == UNCHANGED << argv, dirs, denied, written, refused, log >>

CallsUnchanged ==
    /\ UNCHANGED << fn, arg, ret >>
    /\ RunUnchanged
    /\ UNCHANGED << exit_status, interrupted >>

Init ==
    /\ pc = "collect"
    /\ kw = 1
    /\ page = 1
    /\ all_videos = <<>>
    /\ all_data = <<>>
    /\ keyword_data = [k \in 1..NumKeywords |-> <<>>]
    /\ keyword_files = [k \in 1..NumKeywords |-> 0]
    /\ df = <<>>
    /\ idx = 1
    /\ enhanced_data = <<>>
    /\ csv = <<>>
    /\ now = 0
    /\ requested = FALSE
    /\ slept = FALSE
    /\ searched = {}
    /\ stop = [k \in 1..NumKeywords |-> NotStopped]
    /\ detail_calls = {}
    /\ failed_rows = {}
    /\ fn = ""
    /\ arg = NoCall
    /\ ret = NoCall
    /\ CollectRun

\* ------------------------------------------------------ collect_keyword_data
\* self.search_videos(keyword, page) is called: one search request goes out.
IssueSearch ==
    /\ searched' = searched \cup { <<kw, page>> }
    /\ requested' = TRUE

InLoop == pc = "collect" /\ page <= max_pages

EnhanceUnchanged == UNCHANGED << df, idx, enhanced_data, detail_calls, failed_rows >>

\* The failed request is made again: the page is not left.
SearchFailed_retry ==
    /\ CallsUnchanged
    /\ InLoop
    /\ IssueSearch
    /\ pc' = "collect"
    /\ slept' = FALSE
    /\ UNCHANGED << kw, page, all_videos, all_data, keyword_data, keyword_files, csv,
                    now, stop >>
    /\ EnhanceUnchanged

\* Lines 252-254: search_videos returned the failure value {}.
SearchFailed ==
    /\ CallsUnchanged
    /\ InLoop
    /\ IssueSearch
    /\ pc' = "filter"
    /\ stop' = [stop EXCEPT ![kw] = [cause |-> "failure", page |-> page]]
    /\ slept' = FALSE
    /\ UNCHANGED << kw, page, all_videos, all_data, keyword_data, keyword_files, csv, now >>
    /\ EnhanceUnchanged

\* An empty page that does not end the loop: on to the next page.
SearchEmpty_continues ==
    /\ CallsUnchanged
    /\ InLoop
    /\ IssueSearch
    /\ pc' = "collect"
    /\ page' = page + 1
    /\ stop' = [stop EXCEPT ![kw] = [cause |-> "empty", page |-> page]]
    /\ slept' = FALSE
    /\ UNCHANGED << kw, all_videos, all_data, keyword_data, keyword_files, csv, now >>
    /\ EnhanceUnchanged

\* Lines 256-259: search_videos returned {'result': []}.
SearchEmpty ==
    /\ CallsUnchanged
    /\ InLoop
    /\ IssueSearch
    /\ pc' = "filter"
    /\ stop' = [stop EXCEPT ![kw] = [cause |-> "empty", page |-> page]]
    /\ slept' = FALSE
    /\ UNCHANGED << kw, page, all_videos, all_data, keyword_data, keyword_files, csv, now >>
    /\ EnhanceUnchanged

\* The exception leaves collect_keyword_data and reaches the handler of
\* collect_all_data (lines 318-320): the keyword's records are lost.
SearchRaised_propagates ==
    /\ CallsUnchanged
    /\ InLoop
    /\ IssueSearch
    /\ stop' = [stop EXCEPT ![kw] = [cause |-> "exception", page |-> page]]
    /\ slept' = FALSE
    /\ all_videos' = <<>>
    /\ page' = 1
    /\ IF kw < NumKeywords
       THEN pc' = "collect" /\ kw' = kw + 1
       ELSE pc' = "merge" /\ kw' = kw
    /\ UNCHANGED << all_data, keyword_data, keyword_files, csv, now >>
    /\ EnhanceUnchanged

\* Lines 280-282: an exception in the page iteration is logged, break.
SearchRaised ==
    /\ CallsUnchanged
    /\ InLoop
    /\ IssueSearch
    /\ pc' = "filter"
    /\ stop' = [stop EXCEPT ![kw] = [cause |-> "exception", page |-> page]]
    /\ slept' = FALSE
    /\ UNCHANGED << kw, page, all_videos, all_data, keyword_data, keyword_files, csv, now >>
    /\ EnhanceUnchanged

\* The loop without the check of lines 276-278.
LoopEnds_no_max_results(videos, next_page) == next_page > max_pages

\* After a page: the max-results break (276-278), else the while test (247).
LoopEnds(videos, next_page) ==
    Len(videos) >= max_results_per_keyword \/ next_page > max_pages

\* Lines 256-278: a page with items is extracted, the page counter advances,
\* the delay runs, and the loop goes on or ends.
SearchPage ==
    /\ CallsUnchanged
    /\ InLoop
    /\ IssueSearch
    /\ \E videos \in SearchPages(SEARCH_KEYWORDS[kw]) :
         LET extracted == all_videos \o ExtractPage(videos, SEARCH_KEYWORDS[kw], now)
         IN  /\ all_videos' = extracted
             /\ page' = page + 1
             /\ IF LoopEnds(extracted, page + 1)
                THEN /\ pc' = "filter"
                     /\ stop' = [stop EXCEPT ![kw] =
                            [cause |-> IF Len(extracted) >= max_results_per_keyword
                                       THEN "max_results" ELSE "max_pages",
                             page |-> page]]
                ELSE /\ pc' = "collect"
                     /\ stop' = stop
    /\ now' = now + request_delay
    /\ slept' = TRUE
    /\ UNCHANGED << kw, all_data, keyword_data, keyword_files, csv >>
    /\ EnhanceUnchanged

\* The keyword's file not written inside the loop over the keywords.
SaveKeyword_deferred(k, rows) == keyword_files

\* Lines 311-316: the keyword's file is written when the keyword has records.
SaveKeyword(k, rows) ==
    IF rows # <<>> THEN [keyword_files EXCEPT ![k] = @ + 1] ELSE keyword_files

\* Lines 284-292 and 307-316: the date filter, the return to collect_all_data,
\* all_data.extend and the keyword's file; then the next keyword.
FinishKeyword ==
    /\ CallsUnchanged
    /\ pc = "filter"
    /\ LET filtered_videos == filter_by_date(all_videos, start_timestamp, end_timestamp)
       IN  /\ keyword_data' = [keyword_data EXCEPT ![kw] = filtered_videos]
           /\ all_data' = all_data \o filtered_videos
           /\ keyword_files' = SaveKeyword(kw, filtered_videos)
    /\ all_videos' = <<>>
    /\ page' = 1
    /\ IF kw < NumKeywords
       THEN pc' = "collect" /\ kw' = kw + 1
       ELSE pc' = "merge" /\ kw' = kw
    /\ UNCHANGED << csv, now, requested, slept, searched, stop >>
    /\ EnhanceUnchanged

\* ---------------------------------------------------------- collect_all_data
\* Lines 322-334: dedup by bvid and the merged file.
Merge ==
    /\ CallsUnchanged
    /\ pc = "merge"
    /\ all_data # <<>>
    /\ df' = drop_duplicates(all_data)
    /\ csv' = (AllVideosFile :> drop_duplicates(all_data)) @@ csv
    /\ pc' = "merged"
    /\ UNCHANGED << kw, page, all_videos, all_data, keyword_data, keyword_files, idx,
                    enhanced_data, now, requested, slept, searched, stop,
                    detail_calls, failed_rows >>

\* Line 335 and main.py 90-100: collect_all_data returns df, its locals are
\* gone, and the frame goes to enhance_video_data.
ReturnFrame ==
    /\ CallsUnchanged
    /\ pc = "merged"
    /\ pc' = "enhance"
    /\ idx' = 1
    /\ all_data' = <<>>
    /\ keyword_data' = [k \in 1..NumKeywords |-> <<>>]
    /\ searched' = {}
    /\ stop' = [k \in 1..NumKeywords |-> NotStopped]
    /\ UNCHANGED << kw, page, all_videos, keyword_files, df, enhanced_data, csv,
                    now, requested, slept, detail_calls, failed_rows >>

\* Lines 336-338 and main.py 92-94: nothing collected, no enrichment.
MergeEmpty ==
    /\ CallsUnchanged
    /\ pc = "merge"
    /\ all_data = <<>>
    /\ pc' = "done"
    /\ UNCHANGED << kw, page, all_videos, all_data, keyword_data, keyword_files,
                    df, idx, enhanced_data, csv, now, requested, slept, searched,
                    stop, detail_calls, failed_rows >>

\* -------------------------------------------------------- enhance_video_data
CollectUnchanged ==
    UNCHANGED << kw, page, all_videos, all_data, keyword_data, keyword_files, df,
                 searched, stop >>

InRows == pc = "enhance" /\ idx <= Len(df)

\* Lines 356-358: a row without bvid is passed over.
EnhanceSkip ==
    /\ CallsUnchanged
    /\ InRows
    /\ df[idx].bvid = ""
    /\ idx' = idx + 1
    /\ UNCHANGED << pc, enhanced_data, csv, now, requested, slept, detail_calls, failed_rows >>
    /\ CollectUnchanged

IssueDetail ==
    /\ detail_calls' = detail_calls \cup {idx}
    /\ requested' = TRUE

\* The row as appended when the detail call gave nothing: overwritten.
UnenhancedRow_reset(row) == [row EXCEPT !.view = 0]

\* Lines 394 and 401: row.to_dict().
UnenhancedRow(row) == row

\* Lines 361-397: the detail call succeeded.
EnhanceOk ==
    /\ CallsUnchanged
    /\ InRows
    /\ df[idx].bvid # ""
    /\ IssueDetail
    /\ \E video_info \in DetailInfos :
         enhanced_data' = Append(enhanced_data, EnhancedRow(df[idx], video_info))
    /\ now' = now + request_delay
    /\ slept' = TRUE
    /\ idx' = idx + 1
    /\ UNCHANGED << pc, csv, failed_rows >>
    /\ CollectUnchanged

\* Lines 393-397: get_video_info returned the failure value {}.
EnhanceFailed ==
    /\ CallsUnchanged
    /\ InRows
    /\ df[idx].bvid # ""
    /\ IssueDetail
    /\ enhanced_data' = Append(enhanced_data, UnenhancedRow(df[idx]))
    /\ failed_rows' = failed_rows \cup {idx}
    /\ now' = now + request_delay
    /\ slept' = TRUE
    /\ idx' = idx + 1
    /\ UNCHANGED << pc, csv >>
    /\ CollectUnchanged

\* Lines 399-401: the detail call or the merge raised.
EnhanceRaised ==
    /\ CallsUnchanged
    /\ InRows
    /\ df[idx].bvid # ""
    /\ IssueDetail
    /\ enhanced_data' = Append(enhanced_data, UnenhancedRow(df[idx]))
    /\ failed_rows' = failed_rows \cup {idx}
    /\ slept' = FALSE
    /\ idx' = idx + 1
    /\ UNCHANGED << pc, csv, now >>
    /\ CollectUnchanged

\* Lines 403-410: the enriched file.
EnhanceSave ==
    /\ CallsUnchanged
    /\ pc = "enhance"
    /\ idx > Len(df)
    /\ csv' = (EnhancedFile :> enhanced_data) @@ csv
    /\ pc' = "done"
    /\ UNCHANGED << idx, enhanced_data, now, requested, slept, detail_calls, failed_rows >>
    /\ CollectUnchanged

\* ------------------------------------------------------------- the interrupt
\* The signal taken for an error of the page: the run goes on.
Interrupt_absorbed ==
    /\ UNCHANGED << fn, arg, ret >>
    /\ RunUnchanged
    /\ pc \in { "collect", "filter", "merge", "merged", "enhance" }
    /\ ~interrupted
    /\ interrupted' = TRUE
    /\ UNCHANGED << pc, kw, page, all_videos, all_data, keyword_data, keyword_files,
                    df, idx, enhanced_data, csv, now, requested, slept, searched,
                    stop, detail_calls, failed_rows, exit_status >>

\* KeyboardInterrupt raised anywhere in collect_all_data or enhance_video_data.
\* It is no Exception, so `except Exception` of data_collector.py 200, 280,
\* 318, 399 and of main.py 109 lets it pass, as do the two handlers of
\* search_videos and get_video_info; the calls in progress are left, and
\* cli.py 105-107 logs the interruption and calls sys.exit(1). The locals of
\* the calls that were left are as they are before the first call.
Interrupt ==
    /\ UNCHANGED << fn, arg, ret >>
    /\ pc \in { "collect", "filter", "merge", "merged", "enhance" }
    /\ ~interrupted
    /\ interrupted' = TRUE
    /\ pc' = "exit"
    /\ kw' = 1
    /\ page' = 1
    /\ all_videos' = <<>>
    /\ all_data' = <<>>
    /\ keyword_data' = [k \in 1..NumKeywords |-> <<>>]
    /\ df' = <<>>
    /\ idx' = 1
    /\ enhanced_data' = <<>>
    /\ now' = 0
    /\ slept' = FALSE
    /\ searched' = {}
    /\ stop' = [k \in 1..NumKeywords |-> NotStopped]
    /\ detail_calls' = {}
    /\ failed_rows' = {}
    /\ log' = Append(log, "Analysis interrupted by user")
    /\ exit_status' = << 1 >>
    /\ UNCHANGED << keyword_files, csv, requested, argv, dirs, denied, written,
                    refused >>

Next ==
    \/ SearchFailed
    \/ SearchEmpty
    \/ SearchRaised
    \/ SearchPage
    \/ FinishKeyword
    \/ Merge
    \/ ReturnFrame
    \/ MergeEmpty
    \/ EnhanceSkip
    \/ EnhanceOk
    \/ EnhanceFailed
    \/ EnhanceRaised
    \/ EnhanceSave

Spec == Init /\ [][Next]_vars

\* The run is one sequential thread: whenever a step is possible, one is taken.
FairSpec == Spec /\ WF_vars(Next)

\* The run with the interrupt signal, which may come before any step.
InterruptSpec == Init /\ [][Next \/ Interrupt]_vars

\* --------------------------------------------------------- data_analyzer.py
\* The cells of the frame read_csv gives: Num a number, Str a text, None an
\* empty cell (NaN).
\* pd.to_numeric(errors='coerce'): a number, the number a text spells, else NaN.
to_numeric(cell) ==
    CASE cell.t = "int" -> cell
      [] cell.t = "str" /\ cell.v = "12" -> Num(12)
      [] OTHER -> None

fillna(cell, value) == IF cell = None THEN value ELSE cell

\* The counter is made a number and nothing else is done to it (lines 153-154).
NumericColumn(cell) == fillna(to_numeric(cell), Num(0)).v

\* astype(str) of line 160: the text of the cell, 'nan' for an empty cell.
TextColumn(cell) == IF cell = None THEN "nan" ELSE cell.v

\* The year of a UTC timestamp (lines 145-146), NaN when pubdate is no number.
DaysIn(year) ==
    IF year % 4 = 0 /\ (year % 100 # 0 \/ year % 400 = 0) THEN 366 ELSE 365

RECURSIVE YearFrom(_, _)
YearFrom(days, year) ==
    IF days < DaysIn(year) THEN year ELSE YearFrom(days - DaysIn(year), year + 1)

YearOf(cell) ==
    IF to_numeric(cell) = None THEN None
    ELSE Num(YearFrom(to_numeric(cell).v \div 86400, 1970))

\* Every interaction counts the same.
EngagementScore_unweighted(row) ==
    row.like + row.coin + row.favorite + row.share + row.reply

\* Lines 163-169.
EngagementScore(row) ==
    row.like * 3 + row.coin * 5 + row.favorite * 4 + row.share * 6 + row.reply * 2

\* A quotient of two integers, as the pair of them.
Ratio(num, den) == [num |-> num, den |-> den]

\* Lines 172-176: score / view * 100 where view > 0, else 0.
EngagementRate(view, engagement_score) ==
    IF view > 0 THEN Ratio(engagement_score * 100, view) ELSE Ratio(0, 1)

\* Lines 143-176 for one row of the frame (month and quarter come from
\* pubdate like year and are not carried).
PreprocessRow(row) ==
    LET numbers == [c \in {"view", "danmaku", "reply", "favorite", "coin", "like", "share"}
                      |-> NumericColumn(row[c])]
    IN  [ engagement_score |-> EngagementScore(numbers),
          engagement_rate  |-> EngagementRate(numbers.view, EngagementScore(numbers)),
          year             |-> YearOf(row.pubdate),
          title            |-> TextColumn(row.title) ]
        @@ numbers @@ row

_preprocess_data(frame) == [i \in 1..Len(frame) |-> PreprocessRow(frame[i])]

\* pd.DataFrame(enhanced_data) of line 403: the frame has the column when a
\* row has the key.
HasColumn(rows, column) == \E i \in 1..Len(rows) : column \in DOMAIN rows[i]

\* Lines 403-407 and data_analyzer.py 121: the enriched rows as read back from
\* the file. A number is written as its text and read back as that number,
\* an empty text is read back as an empty cell; duration_seconds is a column
\* when a row was enriched, and an empty cell in the rows that were not.
read_csv(rows) ==
    [i \in 1..Len(rows) |->
        (IF HasColumn(rows, "duration_seconds")
         THEN [ duration_seconds |->
                  IF "duration_seconds" \in DOMAIN rows[i]
                  THEN Num(rows[i].duration_seconds) ELSE None ]
         ELSE <<>>) @@
        [ bvid     |-> rows[i].bvid,
          pubdate  |-> Num(rows[i].pubdate),
          title    |-> IF rows[i].title = "" THEN None ELSE Str(rows[i].title),
          view     |-> Num(rows[i].view),
          danmaku  |-> Num(rows[i].danmaku),
          reply    |-> Num(rows[i].reply),
          favorite |-> Num(rows[i].favorite),
          coin     |-> Num(rows[i].coin),
          like     |-> Num(rows[i].like),
          share    |-> Num(rows[i].share) ]]

\* Lines 113-127: the frame load_data returns for the file.
load_data(rows) == _preprocess_data(read_csv(rows))

\* config.py 64-68, in hundredths.
sentiment_threshold == [positive |-> 60, negative |-> -10]

\* A score below the midpoint is negative.
Label_midpoint(sentiment_score, threshold) ==
    IF sentiment_score > threshold.positive THEN "positive"
    ELSE IF sentiment_score < 50 THEN "negative"
    ELSE "neutral"

\* Lines 322-327.
Label(sentiment_score, threshold) ==
    IF sentiment_score > threshold.positive THEN "positive"
    ELSE IF sentiment_score < threshold.negative THEN "negative"
    ELSE "neutral"

\* title.strip() for the titles modelled.
strip(title) == IF title \in {"", "  "} THEN "" ELSE title

\* Lines 313-333 for one title: a title with text is scored by SnowNLP (snow is
\* its score in hundredths, None when it raises) and labelled by the
\* thresholds; an empty title and a failed scoring give neutral and 0.5.
Sentiment(title, snow, threshold) ==
    IF strip(title) # "" /\ snow # None
    THEN [sentiment |-> Label(snow.v, threshold), sentiment_score |-> snow.v]
    ELSE [sentiment |-> "neutral", sentiment_score |-> 50]

RECURSIVE SumOf(_)
SumOf(f) ==
    IF DOMAIN f = {} THEN 0
    ELSE LET x == CHOOSE x \in DOMAIN f : TRUE
         IN  f[x] + SumOf([y \in DOMAIN f \ {x} |-> f[y]])

\* round(2) of count / total * 100, in hundredths of a percent (ties to even).
Percent(count, total) ==
    LET q == (count * 10000) \div total
        r == (count * 10000) % total
    IN  IF 2 * r > total THEN q + 1
        ELSE IF 2 * r < total THEN q
        ELSE IF q % 2 = 0 THEN q ELSE q + 1

\* The rows of a year and a label (line 343).
GroupSize(rows, year, label) ==
    Cardinality({ i \in 1..Len(rows) : rows[i].year = Num(year) /\ rows[i].sentiment = label })

\* The divisor is the size of the whole frame.
YearTotal_whole_frame(rows, year, labels) == Len(rows)

\* yearly_sentiment.sum(axis=1) of line 344.
YearTotal(rows, year, labels) ==
    SumOf([label \in labels |-> GroupSize(rows, year, label)])

\* Lines 343-345: per year with rows, the percentage of every label.
YearlySentiment(rows) ==
    LET dated  == { i \in 1..Len(rows) : rows[i].year # None }
        years  == { rows[i].year.v : i \in dated }
        labels == { rows[i].sentiment : i \in dated }
    IN  [year \in years |->
            [label \in labels |->
                Percent(GroupSize(rows, year, label), YearTotal(rows, year, labels))]]

\* Lines 355-367: a keyword list is made of the titles of a label when there
\* are any (the list is carried as the titles it is extracted from).
KeywordLists(rows) ==
    LET TitlesOf(label) ==
            LET labelled == SelectSeq(rows, LAMBDA row : row.sentiment = label)
            IN  [i \in 1..Len(labelled) |-> labelled[i].title]
        positive_titles == TitlesOf("positive")
        negative_titles == TitlesOf("negative")
    IN  (IF positive_titles # <<>> THEN [positive_keywords |-> positive_titles] ELSE <<>>)
        @@ (IF negative_titles # <<>> THEN [negative_keywords |-> negative_titles] ELSE <<>>)

\* Lines 309-367: the frame with its two new columns, the yearly breakdown
\* and the keyword lists; snow is SnowNLP's outcome per row.
analyze_sentiment(frame, snow, threshold) ==
    LET rows == [i \in 1..Len(frame) |->
                    Sentiment(frame[i].title, snow[i], threshold) @@ frame[i]]
    IN  [df |-> rows, yearly_sentiment |-> YearlySentiment(rows)] @@ KeywordLists(rows)

\* Lines 421-422: pd.cut(duration_minutes, bins=[0, 5, 15, 30, 60, inf]) with
\* its defaults right=True and include_lowest=False, on the seconds: the
\* intervals (0, 5], (5, 15], (15, 30], (30, 60], (60, inf) minutes, NaN for
\* an empty cell and for a duration in none of them.
duration_labels == { "0-5", "5-15", "15-30", "30-60", "60+" }

cut(cell) ==
    IF cell = None THEN None
    ELSE CASE cell.v > 0 /\ cell.v <= 5 * 60 -> Str("0-5")
           [] cell.v > 5 * 60 /\ cell.v <= 15 * 60 -> Str("5-15")
           [] cell.v > 15 * 60 /\ cell.v <= 30 * 60 -> Str("15-30")
           [] cell.v > 30 * 60 /\ cell.v <= 60 * 60 -> Str("30-60")
           [] cell.v > 60 * 60 -> Str("60+")
           [] OTHER -> None

\* Lines 418-430: with a duration_seconds column, the rows of every bin are
\* counted by their bvid (the means of the bin and the statistics of lines
\* 386-416 are not carried).
analyze_engagement_patterns(frame) ==
    IF ~HasColumn(frame, "duration_seconds") THEN <<>>
    ELSE [ duration_engagement |->
             [ label \in duration_labels |->
                 [ bvid |-> Cardinality({ i \in 1..Len(frame) :
                                /\ cut(frame[i].duration_seconds) = Str(label)
                                /\ frame[i].bvid # "" }) ] ] ]

\* The numbers of Python and of numpy other than the int (which is Num): a
\* "float", an "np.integer", an "np.floating"; a float carries its value as a
\* quotient.
Number(type, value) == [t |-> type, v |-> value]

\* num / den (den > 0) rounded to an integer, ties to even.
RoundDiv(num, den) ==
    LET q == num \div den
        r == num % den
    IN  IF 2 * r > den THEN q + 1
        ELSE IF 2 * r < den THEN q
        ELSE IF q % 2 = 0 THEN q ELSE q + 1

\* df[column].sum() of an integer column.
RECURSIVE ColumnSum(_, _)
ColumnSum(frame, column) ==
    IF frame = <<>> THEN 0
    ELSE Head(frame)[column] + ColumnSum(Tail(frame), column)

\* df['engagement_rate'].sum(), as one quotient in lowest terms.
RECURSIVE RateSum(_)
RateSum(frame) ==
    IF frame = <<>> THEN Ratio(0, 1)
    ELSE LET RECURSIVE GCD(_, _)
             GCD(a, b) == IF b = 0 THEN a ELSE GCD(b, a % b)
             Lowest(ratio) ==
                 LET g == GCD(IF ratio.num < 0 THEN -ratio.num ELSE ratio.num, ratio.den)
                 IN  Ratio(ratio.num \div g, ratio.den \div g)
             rate == Lowest(Head(frame).engagement_rate)
             rest == RateSum(Tail(frame))
         IN  Lowest(Ratio(rate.num * rest.den + rest.num * rate.den, rate.den * rest.den))

\* Lines 447-455: the overview of the report. len and int give Python ints,
\* round of a numpy mean gives a numpy float, and f"{x:.0f}" of
\* df['year'].min() or .max() is nan when no row has a year (the four
\* analyses of lines 456-459 are not carried).
Overview(frame) ==
    LET years == { frame[i].year.v : i \in { j \in 1..Len(frame) : frame[j].year # None } }
        YearText(pick(_, _)) ==
            IF years = {} THEN "nan"
            ELSE ToString(CHOOSE y \in years : \A z \in years : pick(y, z))
        rates == RateSum(frame)
    IN  Dict([ total_videos |-> Num(Len(frame)),
               date_range |-> Str(YearText(LAMBDA y, z : y <= z) \o " - "
                                  \o YearText(LAMBDA y, z : y >= z)),
               total_views |-> Num(ColumnSum(frame, "view")),
               avg_views |->
                   Number("np.floating",
                          Ratio(RoundDiv(100 * ColumnSum(frame, "view"), Len(frame)), 100)),
               total_engagement |-> Num(ColumnSum(frame, "engagement_score")),
               avg_engagement_rate |->
                   Number("np.floating",
                          Ratio(RoundDiv(1000 * rates.num, rates.den * Len(frame)), 1000)) ])

\* Lines 463-477: objects with strftime, periods and timestamps become
\* their text, a tuple a list, a numpy integer an int, a numpy float a
\* float, and everything else, a Python int or float included, its text
\* str(obj).
convert_for_json(obj) ==
    CASE obj.t \in { "Timestamp", "Period" } -> Str(obj.v)
      [] obj.t = "tuple" -> List(obj.v)
      [] obj.t = "np.integer" -> Num(obj.v)
      [] obj.t = "np.floating" -> Number("float", obj.v)
      [] OTHER -> Str(IF obj.t = "str" THEN obj.v ELSE ToString(obj.v))

\* Lines 480-486.
RECURSIVE deep_convert(_)
deep_convert(data) ==
    CASE data.t = "dict" -> Dict([k \in DOMAIN data.v |-> deep_convert(data.v[k])])
      [] data.t = "list" -> List([i \in DOMAIN data.v |-> deep_convert(data.v[i])])
      [] OTHER -> convert_for_json(data)

\* Lines 447-496: the report that is returned, and json_safe_report, which
\* json.dump writes to analysis_report.json.
generate_comprehensive_report(frame) ==
    LET report == Dict([overview |-> Overview(frame)])
    IN  [report |-> report, json_safe_report |-> deep_convert(report)]

\* ------------------------------------------------- the functions on their own
\* The result groups a search response can carry.
VideoGroup == Dict([result_type |-> "video", data |-> List(<< "BV1" >>)])
OtherVideoGroup == Dict([result_type |-> "video", data |-> List(<< "BV2" >>)])
BareVideoGroup == Dict([result_type |-> "video"])
TipsGroup == Dict([result_type |-> "tips", data |-> List(<< "tip" >>)])
UntaggedGroup == Dict([data |-> List(<< "BV3" >>)])
TextGroup == Str("video")

ResultGroups ==
    { VideoGroup, OtherVideoGroup, BareVideoGroup, TipsGroup, UntaggedGroup, TextGroup }

\* At most this many groups in a response.
MaxGroups == 2

\* The data part of a search body.
SearchDataParts ==
    { None, Num(0), Str("text"), List(<<>>), Dict(EmptyDict),
      Dict([result |-> None]), Dict([result |-> Str("")]),
      Dict([result |-> Str("text")]), Dict([result |-> Dict(EmptyDict)]) }
    \cup { Dict([result |-> List(groups)]) : groups \in SeqsUpTo(ResultGroups, MaxGroups) }

\* The bodies that carry no data: no JSON, no mapping, no code, an error code.
BodiesWithoutData ==
    { NotJson, None, List(<<>>), Str("text"), Dict(EmptyDict),
      Dict([code |-> -412, message |-> "blocked"]), Dict([code |-> 0]) }

SearchBodies ==
    BodiesWithoutData
    \cup { Dict([code |-> 0, data |-> part]) : part \in SearchDataParts }
    \cup { Dict([code |-> -412, data |-> Dict([result |-> List(<< VideoGroup >>)])]) }

\* What comes back for a request: no response at all, or a status and a body.
Responses(bodies) ==
    { [transport |-> "timeout"], [transport |-> "connection"] }
    \cup { [transport |-> "ok", status |-> 200, body |-> body] : body \in bodies }
    \cup { [transport |-> "ok", status |-> status, body |-> Dict([code |-> 0])] :
             status \in {404, 500} }

SearchResponses == Responses(SearchBodies)

\* The data part of a detail body (line 82 of the interface: stat holds the
\* counters, owner the uploader).
FullStat ==
    Dict([view |-> 99, danmaku |-> 8, reply |-> 7, favorite |-> 6, coin |-> 5,
          like |-> 4, share |-> 3])

DetailDataParts ==
    { None, Num(0), List(<< "x" >>), Dict(EmptyDict) }
    \cup { Dict(video_info) : video_info \in DetailInfos }
    \cup { Dict([stat |-> FullStat, tname |-> "science", desc |-> "long text",
                 owner |-> Dict([name |-> "up", mid |-> 7]), duration |-> 300]),
           Dict([stat |-> Dict([like |-> 0, coin |-> 2]), desc |-> ""]),
           Dict([tname |-> "science"]),
           Dict([stat |-> None, tname |-> "science"]),
           Dict([owner |-> Str("up"), stat |-> FullStat]) }

DetailBodies ==
    BodiesWithoutData
    \cup { Dict([code |-> 0, data |-> part]) : part \in DetailDataParts }
    \cup { Dict([code |-> -404, data |-> Dict([stat |-> FullStat])]) }

DetailResponses == Responses(DetailBodies)

\* The raw items extract_video_data is applied to, besides those of RawItems.
FullItem ==
    [ bvid |-> "BV9", aid |-> 9, title |-> "<em class=\"keyword\">kw</em> guide",
      author |-> "flat", mid |-> 3, description |-> "text", duration |-> "1:30",
      pubdate |-> start_timestamp, created |-> start_timestamp, play |-> 100,
      video_review |-> 1, review |-> 3, favorites |-> 2, coins |-> 5, like |-> 10,
      share |-> 1, tag |-> "a,b", typeid |-> 21, typename |-> "life",
      pic |-> "//pic", arcurl |-> "http://v", pts |-> 50, arcrank |-> "0",
      badgepay |-> TRUE ]
\* An item published at the last second of the window.
EndItem == [bvid |-> "BV5", pubdate |-> end_timestamp, created |-> 0, play |-> 10]

EmptyItem == EmptyDict
OwnerItem == [bvid |-> "BV5", owner |-> Dict([name |-> "nested"])]
BothItem == [bvid |-> "BV6", author |-> "flat", owner |-> Dict([name |-> "nested"])]
NamelessOwnerItem == [bvid |-> "BV7", owner |-> Dict([mid |-> 3])]
TextOwnerItem == [bvid |-> "BV7", owner |-> Str("text")]
NegativeItem == [bvid |-> "BV8", pubdate |-> end_timestamp, play |-> -5, like |-> 2]

UnitItems ==
    { FullItem, EmptyItem, OwnerItem, BothItem, NamelessOwnerItem, TextOwnerItem,
      NegativeItem, Video1, Video2, Video3, Video4, NoBvidItem, MalformedItem }

\* The pages of items the extraction loop of collect_keyword_data goes over.
UnitPages ==
    { videos \in SeqsUpTo({ MalformedItem, EmptyItem, Video1, NoBvidItem }, MaxItems) :
        videos # <<>> }

\* The rows of a frame: what collect_keyword_data makes of an item.
UnitRows ==
    { ExtractPage(<< item >>, SEARCH_KEYWORDS[1], 0)[1] :
        item \in { FullItem, NegativeItem, Video1, NoBvidItem } }

\* Python truth of a value.
bool(x) ==
    CASE x.t = "NoneType" -> FALSE
      [] x.t = "dict" -> DOMAIN x.v # {}
      [] x.t = "list" -> x.v # <<>>
      [] x.t = "str" -> x.v # ""
      [] x.t = "int" -> x.v # 0

\* Lines 369-381 raise when video_info, its stat or its owner has no .get.
UpdateRaises(video_info) ==
    \/ ~isinstance(video_info, "dict")
    \/ \E part \in {"stat", "owner"} :
         part \in DOMAIN video_info.v /\ ~isinstance(video_info.v[part], "dict")

\* Lines 355-401, one iteration: what is appended to enhanced_data for the
\* row when the detail request gets the response.
EnhanceIteration(row, response) ==
    IF row.bvid = "" THEN <<>>
    ELSE LET call == get_video_info(response)
         IN  IF call.kind = "raise" THEN << UnenhancedRow(row) >>
             ELSE IF ~bool(call.value) THEN << UnenhancedRow(row) >>
             ELSE IF UpdateRaises(call.value) THEN << UnenhancedRow(row) >>
             ELSE << EnhancedRow(row, call.value.v) >>

\* At most this many rows in a frame an analyzer function is applied to.
MaxRows == 3

\* The rows of a file _preprocess_data is applied to.
FileRows ==
    { [ bvid |-> "BV9", pubdate |-> Num(start_timestamp), title |-> Str("guide"),
        view |-> Num(100), danmaku |-> Num(1), reply |-> Num(3), favorite |-> Num(2),
        coin |-> Num(5), like |-> Num(10), share |-> Num(1) ],
      [ bvid |-> "BV2", pubdate |-> Num(end_timestamp), title |-> None,
        view |-> Num(0), danmaku |-> Num(0), reply |-> Num(1), favorite |-> Num(0),
        coin |-> Num(0), like |-> Num(2), share |-> Num(0) ],
      [ bvid |-> "BV3", pubdate |-> Str("soon"), title |-> Str("  "),
        view |-> Str("--"), danmaku |-> None, reply |-> Str("12"), favorite |-> None,
        coin |-> Str("many"), like |-> Num(1), share |-> None ],
      [ bvid |-> "BV8", pubdate |-> Num(0), title |-> Str("guide"),
        view |-> Num(-5), danmaku |-> Num(0), reply |-> Num(0), favorite |-> Num(0),
        coin |-> Num(0), like |-> Num(2), share |-> Num(0) ] }

\* The rows analyze_sentiment is applied to, each with SnowNLP's outcome for
\* its title: a score in hundredths, None when the scoring raises.
TitledRows ==
    { [title |-> "", year |-> Num(2019), snow |-> None],
      [title |-> "  ", year |-> Num(2020), snow |-> Num(90)],
      [title |-> "great", year |-> Num(2019), snow |-> Num(61)],
      [title |-> "fine", year |-> Num(2019), snow |-> Num(60)],
      [title |-> "so-so", year |-> Num(2020), snow |-> Num(30)],
      [title |-> "bad", year |-> Num(2019), snow |-> Num(0)],
      [title |-> "odd", year |-> None, snow |-> None] }

\* The rows of the enriched file for a record and the detail responses by
\* their duration: absent, or a number of seconds.
EnrichedRows ==
    LET Ok(data) == [transport |-> "ok", status |-> 200,
                     body |-> Dict([code |-> 0, data |-> Dict(data)])]
        DurationResponses ==
            { [transport |-> "timeout"], Ok([stat |-> FullStat]) }
            \cup { Ok([stat |-> FullStat, duration |-> d]) :
                     d \in { 0, 60, 5 * 60, 5 * 60 + 1, 60 * 60, 60 * 60 + 1 } }
    IN  { EnhanceIteration(ExtractPage(<< FullItem >>, SEARCH_KEYWORDS[1], 0)[1],
                           response)[1] : response \in DurationResponses }

\* The threshold pairs: the configured pair and two others.
Thresholds ==
    { sentiment_threshold,
      [positive |-> 60, negative |-> 30],
      [positive |-> 40, negative |-> 30] }

Frames(rows) == { frame \in SeqsUpTo(rows, MaxRows) : frame # <<>> }

\* The calls: a function and its argument.
Calls ==
    { [fn |-> "search_videos", arg |-> response] : response \in SearchResponses }
    \cup { [fn |-> "get_video_info", arg |-> response] : response \in DetailResponses }
    \cup { [fn |-> "enhance_video_data", arg |-> [row |-> row, response |-> response]] :
             row \in UnitRows, response \in DetailResponses }
    \cup { [fn |-> "extract_video_data", arg |-> item] : item \in UnitItems }
    \cup { [fn |-> "collect_keyword_data", arg |-> videos] : videos \in UnitPages }
    \cup { [fn |-> "_preprocess_data", arg |-> frame] : frame \in Frames(FileRows) }
    \cup { [fn |-> "load_data", arg |-> [item |-> item, response |-> response]] :
             item \in { FullItem, NegativeItem, Video1, Video2, EndItem, NoBvidItem },
             response \in DetailResponses }
    \cup { [fn |-> "analyze_sentiment", arg |-> [df |-> frame, threshold |-> threshold]] :
             frame \in Frames(TitledRows), threshold \in Thresholds }
    \cup { [fn |-> "analyze_engagement_patterns", arg |-> rows] :
             rows \in Frames(EnrichedRows) }
    \cup { [fn |-> "generate_comprehensive_report", arg |-> frame] :
             frame \in Frames(FileRows) }
    \cup { [fn |-> "convert_for_json", arg |-> obj] :
             obj \in { Num(0), Num(1234), Number("float", Ratio(5, 2)),
                       Number("np.integer", 7), Number("np.floating", Ratio(1, 4)),
                       Str("2019 - 2025"),
                       [t |-> "Timestamp", v |-> "2019-01-01 00:00:00"],
                       [t |-> "Period", v |-> "2019Q1"],
                       [t |-> "tuple", v |-> << "kw", "w" >>] } }

\* A function is about to be applied to an argument; no pipeline run is going on.
UnitInit ==
    /\ pc = "call"
    /\ \E call \in Calls : fn = call.fn /\ arg = call.arg
    /\ ret = NoCall
    /\ kw = 1
    /\ page = 1
    /\ all_videos = <<>>
    /\ all_data = <<>>
    /\ keyword_data = [k \in 1..NumKeywords |-> <<>>]
    /\ keyword_files = [k \in 1..NumKeywords |-> 0]
    /\ df = <<>>
    /\ idx = 1
    /\ enhanced_data = <<>>
    /\ csv = <<>>
    /\ now = 0
    /\ requested = FALSE
    /\ slept = FALSE
    /\ searched = {}
    /\ stop = [k \in 1..NumKeywords |-> NotStopped]
    /\ detail_calls = {}
    /\ failed_rows = {}
    /\ CollectRun

PipelineUnchanged ==
    /\ UNCHANGED << kw, page, all_videos, all_data, keyword_data, keyword_files, df, idx,
                    enhanced_data, csv, now, requested, slept, searched, stop,
                    detail_calls, failed_rows >>
    /\ RunUnchanged
    /\ UNCHANGED << exit_status, interrupted >>

Calling(name) == pc = "call" /\ fn = name

CallEnds ==
    /\ pc' = "returned"
    /\ UNCHANGED << fn, arg >>
    /\ PipelineUnchanged

Call_search_videos ==
    /\ Calling("search_videos")
    /\ ret' = search_videos(arg)
    /\ CallEnds

Call_get_video_info ==
    /\ Calling("get_video_info")
    /\ ret' = get_video_info(arg)
    /\ CallEnds

\* enhance_video_data on a frame of one row.
Call_enhance_video_data ==
    /\ Calling("enhance_video_data")
    /\ ret' = Return(EnhanceIteration(arg.row, arg.response))
    /\ CallEnds

Call_extract_video_data ==
    /\ Calling("extract_video_data")
    /\ ret' = Return(extract_video_data(arg))
    /\ CallEnds

\* collect_keyword_data on one page of items, lines 262-267: all_videos after
\* the extraction loop.
Call_collect_keyword_data ==
    /\ Calling("collect_keyword_data")
    /\ ret' = Return(ExtractPage(arg, SEARCH_KEYWORDS[1], now))
    /\ CallEnds

Call__preprocess_data ==
    /\ Calling("_preprocess_data")
    /\ ret' = Return(_preprocess_data(arg))
    /\ CallEnds

\* load_data on the file enhance_video_data wrote for the one record that
\* collect_keyword_data extracted from the item.
Call_load_data ==
    /\ Calling("load_data")
    /\ ret' = Return(load_data(EnhanceIteration(
                   ExtractPage(<< arg.item >>, SEARCH_KEYWORDS[1], now)[1], arg.response)))
    /\ CallEnds

Call_analyze_sentiment ==
    /\ Calling("analyze_sentiment")
    /\ ret' = Return(analyze_sentiment(arg.df, [i \in 1..Len(arg.df) |-> arg.df[i].snow],
                                       arg.threshold))
    /\ CallEnds

\* analyze_engagement_patterns on the frame load_data makes of the enriched
\* file.
Call_analyze_engagement_patterns ==
    /\ Calling("analyze_engagement_patterns")
    /\ ret' = Return(analyze_engagement_patterns(load_data(arg)))
    /\ CallEnds

\* generate_comprehensive_report on the frame load_data returns.
Call_generate_comprehensive_report ==
    /\ Calling("generate_comprehensive_report")
    /\ ret' = Return(generate_comprehensive_report(_preprocess_data(arg)))
    /\ CallEnds

Call_convert_for_json ==
    /\ Calling("convert_for_json")
    /\ ret' = Return(convert_for_json(arg))
    /\ CallEnds

UnitNext ==
    \/ Call_generate_comprehensive_report
    \/ Call_convert_for_json
    \/ Call_analyze_engagement_patterns
    \/ Call__preprocess_data
    \/ Call_load_data
    \/ Call_analyze_sentiment
    \/ Call_search_videos
    \/ Call_get_video_info
    \/ Call_enhance_video_data
    \/ Call_extract_video_data
    \/ Call_collect_keyword_data

UnitSpec == UnitInit /\ [][UnitNext]_vars

Returned(name) == pc = "returned" /\ fn = name

\* ------------------------------------------------------------------- cli.py
\* Paths: a directory << dir >>, a file << dir, name >>.
LogFile(name) == << DATA_STORAGE.logs_dir, name >>

KeywordFile(k) == << DATA_STORAGE.raw_data_dir, SEARCH_KEYWORDS[k] >>

\* os.makedirs(dir, exist_ok=True) / Path(dir).mkdir(exist_ok=True), and the
\* opening of a file for writing (logging.FileHandler, DataFrame.to_csv).
mkdir(dir) == [op |-> "mkdir", path |-> << dir >>]

open(file) == [op |-> "open", path |-> file]

\* The operations in program order up to the first that raises OSError (a
\* directory that does not exist and may not be created; a file in a directory
\* that does not exist, or one that may not be opened): the directories and
\* the files there are afterwards, and the path that was refused.
RECURSIVE Perform(_, _, _)
Perform(ios, ds, ws) ==
    IF ios = <<>> THEN [dirs |-> ds, written |-> ws, refused |-> {}]
    ELSE LET io == Head(ios)
             Refuses == IF io.op = "mkdir"
                        THEN io.path[1] \notin ds /\ io.path \in denied
                        ELSE io.path[1] \notin ds \/ io.path \in denied
         IN  IF Refuses
             THEN [dirs |-> ds, written |-> ws, refused |-> { io.path }]
             ELSE IF io.op = "mkdir"
             THEN Perform(Tail(ios), ds \cup { io.path[1] }, ws)
             ELSE Perform(Tail(ios), ds, ws \cup { io.path })

\* _ensure_directories of BilibiliAnalyzer, BilibiliDataCollector and
\* DataAnalyzer: every directory of DATA_STORAGE, in the order of its values.
_ensure_directories ==
    << mkdir(DATA_STORAGE.raw_data_dir), mkdir(DATA_STORAGE.processed_data_dir),
       mkdir(DATA_STORAGE.output_dir), mkdir(DATA_STORAGE.logs_dir) >>

\* BilibiliAnalyzer.__init__, main.py 25-31: its logger, then the collector,
\* the analyzer and the visualizer, each with its log file and directories.
__init__ ==
    << open(LogFile("main.log")) >>
    \o << open(LogFile("collector.log")) >> \o _ensure_directories
    \o << open(LogFile("analyzer.log")) >> \o _ensure_directories
    \o << open(LogFile("visualizer.log")), mkdir("output/charts") >>
    \o _ensure_directories

\* The methods class BilibiliAnalyzer defines (main.py 22-256).
BilibiliAnalyzer ==
    { "__init__", "_setup_logger", "_ensure_directories", "collect_only",
      "run_data_analysis", "run_visualization", "_display_analysis_summary",
      "run_full_analysis" }

\* What the variables outside a run of the command line keep.
OutsideRun ==
    UNCHANGED << kw, page, all_videos, all_data, keyword_data, idx, enhanced_data,
                 now, slept, searched, stop, detail_calls, failed_rows, arg,
                 argv, denied, interrupted >>

\* The process ends.
Exit(status) == pc' = "exit" /\ exit_status' = << status >>

\* cli.py 103 and the return of main.
AnalysisCompleted(messages) ==
    /\ log' = log \o messages \o << "Analysis completed successfully" >>
    /\ Exit(0)

\* cli.py 73 and 14-24, outside the try: the FileHandler opens
\* logs/bilibili_analyzer.log; an OSError is not caught and ends the process
\* with a traceback (status 1).
setup_logging ==
    /\ pc = "start"
    /\ LET io == Perform(<< open(LogFile("bilibili_analyzer.log")) >>, dirs, written)
       IN  /\ dirs' = io.dirs
           /\ written' = io.written
           /\ refused' = refused \cup io.refused
           /\ IF io.refused # {}
              THEN Exit(1)
              ELSE pc' = "try" /\ UNCHANGED exit_status
    /\ UNCHANGED << log, fn, ret, csv, df, requested, keyword_files >>
    /\ OutsideRun

\* cli.py 76-84: the two directories and the analyzer, before args.dry_run
\* is looked at; an OSError reaches cli.py 108-112.
CreateAnalyzer ==
    /\ pc = "try"
    /\ LET io == Perform(<< mkdir("logs"), mkdir(DATA_STORAGE.output_dir) >> \o __init__,
                         dirs, written)
       IN  /\ dirs' = io.dirs
           /\ written' = io.written
           /\ refused' = refused \cup io.refused
           /\ IF io.refused # {}
              THEN log' = Append(log, "Analysis failed") /\ Exit(1)
              ELSE pc' = "analyzer" /\ UNCHANGED << exit_status, log >>
    /\ UNCHANGED << fn, ret, csv, df, requested, keyword_files >>
    /\ OutsideRun

\* A call of a method the class does not define raises AttributeError, which
\* cli.py 108-112 turns into status 1.
CallsMissing(method) ==
    /\ method \notin BilibiliAnalyzer
    /\ fn' = method
    /\ ret' = Raise("AttributeError")
    /\ log' = Append(log, "Analysis failed")
    /\ Exit(1)
    /\ UNCHANGED << dirs, written, refused, csv, df, requested, keyword_files >>
    /\ OutsideRun

\* cli.py 86-90: analyzer.validate_config().
DryRun ==
    /\ pc = "analyzer"
    /\ argv.dry_run
    /\ CallsMissing("validate_config")

\* cli.py 96-97: analyzer.analyze_only().
Mode_analyze ==
    /\ pc = "analyzer"
    /\ ~argv.dry_run
    /\ argv.mode = "analyze"
    /\ CallsMissing("analyze_only")

\* cli.py 98-99: analyzer.visualize_only().
Mode_visualize ==
    /\ pc = "analyzer"
    /\ ~argv.dry_run
    /\ argv.mode = "visualize"
    /\ CallsMissing("visualize_only")

\* cli.py 100-101 and main.py 221-231: run_full_analysis begins with
\* self.run_data_collection(force_recollect), outside any try.
Mode_full ==
    /\ pc = "analyzer"
    /\ ~argv.dry_run
    /\ argv.mode = "full"
    /\ "run_full_analysis" \in BilibiliAnalyzer
    /\ CallsMissing("run_data_collection")

\* main.py 75-80: the enriched file is used whether or not --force-recollect
\* was given.
UseCache_ignores_force == EnhancedFile \in DOMAIN csv

\* main.py 75-80: os.path.exists(enhanced_data_file) and not force_recollect.
UseCache == EnhancedFile \in DOMAIN csv /\ ~argv.force_recollect

\* cli.py 94-95 and main.py 71-80: collect_only returns True at once.
CollectOnly_cached ==
    /\ pc = "analyzer"
    /\ ~argv.dry_run
    /\ argv.mode = "collect"
    /\ UseCache
    /\ fn' = "collect_only"
    /\ ret' = Return(TRUE)
    /\ AnalysisCompleted(<< "Starting Data Collection Phase", "Found existing data file" >>)
    /\ UNCHANGED << dirs, written, refused, csv, df, requested, keyword_files >>
    /\ OutsideRun

\* cli.py 94-95, main.py 82-96 and data_collector.py 294-338: collect_all_data
\* searches, writes the keyword's file (an error there is caught, line 318)
\* and the merged file (an error there reaches main.py 109), and returns the
\* frame; an empty frame ends collect_only with False, whose value cli.py
\* drops. The frame holds no record, or one found under the first keyword.
CollectAllData ==
    /\ pc = "analyzer"
    /\ ~argv.dry_run
    /\ argv.mode = "collect"
    /\ ~UseCache
    /\ fn' = "collect_only"
    /\ requested' = TRUE
    /\ \E frame \in { <<>> } \cup { << row >> : row \in UnitRows } :
         LET keyword_io == Perform(IF frame # <<>> THEN << open(KeywordFile(1)) >> ELSE <<>>,
                                   dirs, written)
             merged_io == Perform(<< open(AllVideosFile) >>, dirs, keyword_io.written)
         IN  IF frame = <<>>
             THEN /\ ret' = Return(FALSE)
                  /\ AnalysisCompleted(<< "Starting Data Collection Phase",
                                          "Data collection failed - no data retrieved" >>)
                  /\ UNCHANGED << written, refused, csv, df, keyword_files >>
             ELSE /\ keyword_files' = IF keyword_io.refused = {}
                                      THEN SaveKeyword(1, frame) ELSE keyword_files
                  /\ written' = merged_io.written
                  /\ refused' = refused \cup keyword_io.refused \cup merged_io.refused
                  /\ IF merged_io.refused # {}
                     THEN /\ ret' = Return(FALSE)
                          /\ AnalysisCompleted(<< "Starting Data Collection Phase",
                                                  "Data collection failed" >>)
                          /\ UNCHANGED << csv, df >>
                     ELSE /\ csv' = (AllVideosFile :> frame) @@ csv
                          /\ df' = frame
                          /\ pc' = "collected"
                          /\ log' = Append(log, "Starting Data Collection Phase")
                          /\ UNCHANGED << ret, exit_status >>
    /\ UNCHANGED dirs
    /\ OutsideRun

\* data_collector.py 353-401 over the rows of df.
RECURSIVE EnhanceRows(_, _)
EnhanceRows(rows, response) ==
    IF rows = <<>> THEN <<>>
    ELSE EnhanceIteration(Head(rows), response) \o EnhanceRows(Tail(rows), response)

\* main.py 98-112 and data_collector.py 340-410, then cli.py 103:
\* enhance_video_data writes the enriched file; an error there reaches
\* main.py 109, collect_only returns False, and cli.py drops the value. The
\* detail requests of the run fail, or succeed.
EnhanceVideoData ==
    /\ pc = "collected"
    /\ \E response \in
            { [transport |-> "timeout"],
              [transport |-> "ok", status |-> 200,
               body |-> Dict([code |-> 0,
                              data |-> Dict([stat |-> FullStat, duration |-> 300])])] } :
         LET io == Perform(<< open(EnhancedFile) >>, dirs, written)
         IN  /\ written' = io.written
             /\ refused' = refused \cup io.refused
             /\ IF io.refused # {}
                THEN /\ ret' = Return(FALSE)
                     /\ csv' = csv
                     /\ AnalysisCompleted(<< "Data collection failed" >>)
                ELSE /\ ret' = Return(TRUE)
                     /\ csv' = (EnhancedFile :> EnhanceRows(df, response)) @@ csv
                     /\ AnalysisCompleted(<< "Data collection completed" >>)
    /\ UNCHANGED << fn, dirs, df, requested, keyword_files >>
    /\ OutsideRun

\* The data files an earlier run left.
CachedFiles ==
    LET rows == << ExtractPage(<< Video1 >>, SEARCH_KEYWORDS[1], 0)[1] >>
    IN  (AllVideosFile :> rows) @@ (EnhancedFile :> rows)

\* The process starts with a command line (--mode, --force-recollect,
\* --dry-run) in a system that refuses nothing, or one directory or file: a
\* first run in an empty working directory, one where only logs/ exists, or a
\* later run.
RunInit ==
    /\ pc = "start"
    /\ argv \in [ mode : { "collect", "analyze", "visualize", "full" },
                   force_recollect : BOOLEAN, dry_run : BOOLEAN ]
    /\ denied \in { {} } \cup
                  { { path } : path \in { << DATA_STORAGE.output_dir >>,
                                          << DATA_STORAGE.processed_data_dir >>,
                                          LogFile("main.log"), KeywordFile(1),
                                          AllVideosFile, EnhancedFile } }
    /\ \/ dirs \in { {}, { DATA_STORAGE.logs_dir } } /\ csv = <<>>
       \/ dirs = StorageDirs /\ csv \in { <<>>, CachedFiles }
    /\ written = {}
    /\ refused = {}
    /\ log = <<>>
    /\ exit_status = <<>>
    /\ interrupted = FALSE
    /\ fn = ""
    /\ arg = NoCall
    /\ ret = NoCall
    /\ kw = 1
    /\ page = 1
    /\ all_videos = <<>>
    /\ all_data = <<>>
    /\ keyword_data = [k \in 1..NumKeywords |-> <<>>]
    /\ keyword_files = [k \in 1..NumKeywords |-> 0]
    /\ df = <<>>
    /\ idx = 1
    /\ enhanced_data = <<>>
    /\ now = 0
    /\ requested = FALSE
    /\ slept = FALSE
    /\ searched = {}
    /\ stop = [k \in 1..NumKeywords |-> NotStopped]
    /\ detail_calls = {}
    /\ failed_rows = {}

RunNext ==
    \/ setup_logging
    \/ CreateAnalyzer
    \/ DryRun
    \/ CollectOnly_cached
    \/ CollectAllData
    \/ EnhanceVideoData
    \/ Mode_analyze
    \/ Mode_visualize
    \/ Mode_full

RunSpec == RunInit /\ [][RunNext]_vars

\* ------------------------------------------------------------------ claims
Merged == pc = "merged"

NoTwoShareId(rows) ==
    \A i \in 1..Len(rows) : \A j \in 1..Len(rows) :
        rows[i].bvid = rows[j].bvid => i = j

\* C1: the record set collect_all_data returns and the merged file it writes
\* contain no two records with the same bvid.
C1_NoDuplicateIds ==
    /\ NoTwoShareId(df)
    /\ AllVideosFile \in DOMAIN csv =>
          NoTwoShareId(csv[AllVideosFile]) /\ csv[AllVideosFile] = df

\* C1 witness: the merge has run on collected records that repeat an id and
\* has kept records of two ids.
C1_Witness ==
    /\ Merged
    /\ ~NoTwoShareId(all_data)
    /\ Len(df) >= 2

SameId(rows, b) == { i \in 1..Len(rows) : rows[i].bvid = b }

\* C2: of the collected records that share an id, collect_all_data keeps
\* exactly one, and none of the others was collected later than it.
C2_LatestCollectedWins ==
    Merged =>
        \A i \in 1..Len(all_data) :
            LET group == SameId(all_data, all_data[i].bvid)
                kept  == SameId(df, all_data[i].bvid)
            IN  /\ Cardinality(kept) = 1
                /\ \A n \in kept :
                     /\ \E j \in group : df[n] = all_data[j]
                     /\ \A j \in group : all_data[j].collected_at <= df[n].collected_at

\* C2 witness: the merge has run on two records with the same id and
\* different collected_at.
C2_Witness ==
    /\ Merged
    /\ \E i \in 1..Len(all_data) : \E j \in 1..Len(all_data) :
         /\ all_data[i].bvid = all_data[j].bvid
         /\ all_data[i].collected_at < all_data[j].collected_at

C3_Timestamp(r) == IF r.pubdate > 0 THEN r.pubdate ELSE r.created

C3_Inside(r) == 1546272000 <= C3_Timestamp(r) /\ C3_Timestamp(r) <= 1767225600

C3_AllInside(rows) == \A i \in 1..Len(rows) : C3_Inside(rows[i])

\* C3: every record of a keyword's result, of the merged set and of the files
\* has its effective timestamp (pubdate when > 0, else created) within
\* [start_timestamp, end_timestamp]; the filter keeps exactly the accumulated
\* records inside the window, the two bounds included.
C3_DateWindow ==
    [][ /\ \A k \in 1..NumKeywords : C3_AllInside(keyword_data'[k])
        /\ C3_AllInside(all_data')
        /\ C3_AllInside(df')
        /\ C3_AllInside(enhanced_data')
        /\ \A f \in DOMAIN csv' : C3_AllInside(csv'[f])
        /\ pc = "filter" => keyword_data'[kw] = SelectSeq(all_videos, C3_Inside)
      ]_vars

\* C3 witness: the merged set holds a record on each bound, and a keyword
\* that had accumulated max_results_per_keyword records returned fewer.
C3_Witness ==
    /\ Merged
    /\ \E i \in 1..Len(df) : C3_Timestamp(df[i]) = start_timestamp
    /\ \E i \in 1..Len(df) : C3_Timestamp(df[i]) = end_timestamp
    /\ \E k \in 1..NumKeywords :
         /\ stop[k].cause = "max_results"
         /\ Len(keyword_data[k]) < max_results_per_keyword

Enhanced == pc = "done" /\ EnhancedFile \in DOMAIN csv

\* C4: enhance_video_data outputs exactly one record for every input record,
\* in input order.
C4_OneOutputPerInput ==
    Enhanced =>
        /\ Len(enhanced_data) = Len(df)
        /\ \A i \in 1..Len(df) : enhanced_data[i].bvid = df[i].bvid

\* C5: a record whose detail call failed or raised is in the output with its
\* pre-enrichment values, and the detail call is issued for every later record.
C5_FailureKeepsRowAndLoopGoesOn ==
    Enhanced =>
        \A i \in failed_rows :
            /\ \E n \in 1..Len(enhanced_data) : enhanced_data[n] = df[i]
            /\ \A j \in (i + 1)..Len(df) : j \in detail_calls

SearchStep == \E s \in searched' : s \notin searched

DetailStep == \E i \in detail_calls' : i \notin detail_calls

Collected == pc \in {"merge", "merged"}

\* C6: an exception in a page iteration of a keyword ends that keyword's loop
\* only: the records accumulated so far go through the date filter into the
\* keyword's result and into all_data, and the run reaches the merge only
\* after every configured keyword has been searched.
C6_ExceptionEndsOnlyKeyword ==
    [][ /\ (stop[kw].cause = "none" /\ stop'[kw].cause = "exception") =>
              (pc' = "filter" /\ kw' = kw /\ all_videos' = all_videos)
        /\ (pc = "filter" /\ stop[kw].cause = "exception") =>
              /\ keyword_data'[kw] = SelectSeq(all_videos, C3_Inside)
              /\ all_data' = all_data \o keyword_data'[kw]
        /\ Collected' => \A k \in 1..NumKeywords : <<k, 1>> \in searched'
      ]_vars

\* C6 witness: the first keyword's second page raised, its first page's
\* records are its result, and the second keyword has been searched.
C6_Witness ==
    /\ stop[1] = [cause |-> "exception", page |-> 2]
    /\ keyword_data[1] # <<>>
    /\ <<2, 1>> \in searched

\* What C7 asks of every step.
C7_Step ==
    /\ SearchStep =>
          /\ searched' = searched \cup { <<kw, page>> }
          /\ <<kw, page>> \notin searched
          /\ page <= max_pages
          /\ Len(all_videos) < max_results_per_keyword
          /\ \/ pc' = "filter" /\ stop'[kw].cause # "none"
             \/ pc' = "collect" /\ kw' = kw /\ page' = page + 1
    /\ \A s \in searched' : s[2] \in 1..max_pages
    /\ pc' = "collect" => page' <= max_pages

\* C7: a search request is issued only for the current page, with
\* page <= max_pages and fewer than max_results_per_keyword records
\* accumulated; after it the loop has ended or the page number has grown, so
\* a keyword's loop ends after at most max_pages requests.
C7_HardStops == [][C7_Step]_vars

\* Under FairSpec, every keyword's loop ends.
C7_LoopsEnd == \A k \in 1..NumKeywords : <>(stop[k].cause # "none")

\* C7 witness: a keyword's loop was ended by the page cap, another's by the
\* result cap.
C7_Witness ==
    /\ stop[1].cause = "max_pages"
    /\ stop[2].cause = "max_results"
    /\ <<1, max_pages>> \in searched

\* C8: a failure or an empty item list on page p ends the keyword's loop: no
\* page after p is requested for it, and the records accumulated before p go
\* through the date filter into the keyword's result.
C8_FailureOrEmptyStops ==
    [][ /\ (SearchStep /\ stop'[kw].cause \in {"failure", "empty"}) =>
              (pc' = "filter" /\ kw' = kw /\ all_videos' = all_videos
               /\ stop'[kw].page = page)
        /\ \A k \in 1..NumKeywords :
              stop'[k].cause \in {"failure", "empty"} =>
                  \A s \in searched' : s[1] = k => s[2] <= stop'[k].page
        /\ (pc = "filter" /\ stop[kw].cause \in {"failure", "empty"}) =>
              keyword_data'[kw] = SelectSeq(all_videos, C3_Inside)
      ]_vars

\* C8 witness: the first keyword's second page came back empty, the second
\* keyword's failed, and both keep the records of their first page.
C8_Witness ==
    /\ stop[1] = [cause |-> "empty", page |-> 2]
    /\ stop[2] = [cause |-> "failure", page |-> 2]
    /\ keyword_data[1] # <<>>
    /\ keyword_data[2] # <<>>
    /\ Collected

\* C9: a network request that is not the first of the run is issued only
\* after the inter-request delay has run since the request before it.
C9_DelayBetweenRequests ==
    [][ ((SearchStep \/ DetailStep) /\ requested) => slept ]_vars

KeywordSaved(k) == keyword_files[k] > 0

C11_NoRetry ==
    [][ /\ (InLoop /\ <<kw, page>> \in searched') => <<kw, page>> \notin searched
        /\ (InRows /\ idx \in detail_calls') =>
              /\ idx \notin detail_calls
              /\ \A j \in detail_calls : df[j].bvid # df[idx].bvid
      ]_vars

\* C11 witness: the first keyword's first request failed, the second
\* keyword's second one did, and three requests were issued in all.
C11_Witness ==
    /\ pc = "merge"
    /\ stop[1] = [cause |-> "failure", page |-> 1]
    /\ stop[2] = [cause |-> "failure", page |-> 2]
    /\ searched = { <<1, 1>>, <<2, 1>>, <<2, 2>> }

Counters == {"view", "danmaku", "reply", "favorite", "coin", "like", "share"}

\* The detail call got a response with code 0 whose data is a mapping with
\* keys, its stat and owner parts mappings when it has them.
C12_Successful(response) ==
    /\ response.transport = "ok"
    /\ response.status = 200
    /\ response.body.t = "dict"
    /\ "code" \in DOMAIN response.body.v
    /\ response.body.v.code = 0
    /\ "data" \in DOMAIN response.body.v
    /\ response.body.v.data.t = "dict"
    /\ DOMAIN response.body.v.data.v # {}
    /\ \A part \in {"stat", "owner"} :
          part \in DOMAIN response.body.v.data.v =>
              response.body.v.data.v[part].t = "dict"

C12_Carries(info, key) == "stat" \in DOMAIN info /\ key \in DOMAIN info.stat.v

\* C12: after a successful detail call for a record, one record is appended
\* for it; each of its counters is the detail's stat value when stat carries
\* the counter and the record's prior value when not, its tname is the
\* detail's tname or else the prior typename, its desc the detail's desc or
\* else the prior description.
C12_DetailOverPrior ==
    (Returned("enhance_video_data") /\ arg.row.bvid # "" /\ C12_Successful(arg.response)) =>
        LET info == arg.response.body.v.data.v
            out  == ret.value
        IN  /\ Len(out) = 1
            /\ \A c \in Counters :
                  out[1][c] = IF C12_Carries(info, c) THEN info.stat.v[c] ELSE arg.row[c]
            /\ out[1].tname = IF "tname" \in DOMAIN info THEN info.tname
                               ELSE arg.row.typename
            /\ out[1].desc = IF "desc" \in DOMAIN info THEN info.desc
                              ELSE arg.row.description

\* C12 witness: the detail carried one counter, with a value other than the
\* prior one, and lacked another, whose prior value is not 0, and carried no
\* tname.
C12_Witness ==
    /\ Returned("enhance_video_data")
    /\ arg.row.bvid # ""
    /\ C12_Successful(arg.response)
    /\ "tname" \notin DOMAIN arg.response.body.v.data.v
    /\ arg.row.typename # ""
    /\ \E c1 \in Counters : \E c2 \in Counters :
          /\ C12_Carries(arg.response.body.v.data.v, c1)
          /\ ret.value[1][c1] # arg.row[c1]
          /\ ~C12_Carries(arg.response.body.v.data.v, c2)
          /\ arg.row[c2] # 0

C13_Groups(data) ==
    IF "result" \in DOMAIN data.v /\ data.v.result.t = "list" THEN data.v.result.v ELSE <<>>

\* The body is no JSON, no mapping, or has code 0 and a data part that is null
\* or no mapping, or (for a search) a result part that is null or no list, or
\* a result group that is no mapping.
C13_Malformed(name, body) ==
    \/ body = NotJson
    \/ body.t # "dict"
    \/ /\ body.t = "dict"
       /\ "code" \in DOMAIN body.v
       /\ body.v.code = 0
       /\ "data" \in DOMAIN body.v
       /\ \/ body.v.data.t # "dict"
          \/ /\ name = "search_videos"
             /\ "result" \in DOMAIN body.v.data.v
             /\ \/ body.v.data.v.result.t # "list"
                \/ \E i \in 1..Len(C13_Groups(body.v.data)) :
                      C13_Groups(body.v.data)[i].t # "dict"

C13_Failure(name, response) ==
    \/ response.transport # "ok"
    \/ /\ response.transport = "ok"
       /\ \/ response.status >= 400
          \/ C13_Malformed(name, response.body)
          \/ response.body.t = "dict" /\ "code" \in DOMAIN response.body.v
               /\ response.body.v.code # 0

\* C13: search_videos and get_video_info never raise, and for a transport
\* error, a non-success status, a malformed body (its data or result part
\* null or of the wrong shape included) and a non-zero code they return the
\* empty mapping.
C13_NeverRaises ==
    \A name \in {"search_videos", "get_video_info"} :
        Returned(name) =>
            /\ ret.kind = "return"
            /\ C13_Failure(name, arg) => ret = Return(Dict(EmptyDict))

C14_IsVideo(group) == "result_type" \in DOMAIN group.v /\ group.v.result_type = "video"

C14_Items(group) == IF "data" \in DOMAIN group.v THEN group.v.data ELSE List(<<>>)

\* The response has code 0, its data part is a mapping or absent, its result
\* part a list of mappings or absent.
C14_WellFormed(response) ==
    /\ response.transport = "ok"
    /\ response.status = 200
    /\ response.body.t = "dict"
    /\ "code" \in DOMAIN response.body.v
    /\ response.body.v.code = 0
    /\ "data" \in DOMAIN response.body.v =>
          /\ response.body.v.data.t = "dict"
          /\ "result" \in DOMAIN response.body.v.data.v =>
                /\ response.body.v.data.v.result.t = "list"
                /\ \A i \in 1..Len(response.body.v.data.v.result.v) :
                      response.body.v.data.v.result.v[i].t = "dict"

C14_GroupsOf(response) ==
    IF "data" \in DOMAIN response.body.v /\ "result" \in DOMAIN response.body.v.data.v
    THEN response.body.v.data.v.result.v
    ELSE <<>>

\* C14: for a response with code 0, search_videos returns under 'result' the
\* item list of the first group tagged video, without such a group the item
\* list of the first group, without groups the empty list; what it returns is
\* not the failure value.
C14_VideoGroupFirst ==
    (Returned("search_videos") /\ C14_WellFormed(arg)) =>
        LET groups == C14_GroupsOf(arg)
            videos == { i \in 1..Len(groups) : C14_IsVideo(groups[i]) }
        IN  /\ ret.kind = "return"
            /\ ret.value # Dict(EmptyDict)
            /\ DOMAIN ret.value.v = {"result"}
            /\ \A i \in videos :
                  (\A j \in videos : i <= j) => ret.value.v.result = C14_Items(groups[i])
            /\ (videos = {} /\ groups # <<>>) => ret.value.v.result = C14_Items(groups[1])
            /\ groups = <<>> => ret.value.v.result = List(<<>>)

\* C14 witness: a group not tagged video came before two tagged ones, and the
\* items of the first tagged one were returned.
C14_Witness ==
    /\ Returned("search_videos")
    /\ C14_WellFormed(arg)
    /\ Len(C14_GroupsOf(arg)) >= 2
    /\ ~C14_IsVideo(C14_GroupsOf(arg)[1])
    /\ C14_IsVideo(C14_GroupsOf(arg)[2])
    /\ ret.value.v.result = C14_Items(C14_GroupsOf(arg)[2])
    /\ ret.value.v.result # C14_Items(C14_GroupsOf(arg)[1])

\* The item key each counter of a record is read from.
C15_CounterKey ==
    [ view |-> "play", danmaku |-> "video_review", reply |-> "review",
      favorite |-> "favorites", coin |-> "coins", like |-> "like", share |-> "share" ]

C15_NumberKeys == {"aid", "mid", "pubdate", "created", "typeid", "pts"}

C15_TextKeys ==
    {"bvid", "description", "duration", "tag", "typename", "pic", "arcurl", "arcrank"}

C15_Extractable(item) == "not_a_mapping" \notin DOMAIN item

\* What extract_video_data returned is a full record with the default in
\* every field the item lacks.
C15_Defaults(item, record) ==
    /\ DOMAIN record = Counters \cup C15_NumberKeys \cup C15_TextKeys
                          \cup {"title", "author", "badgepay"}
    /\ \A c \in Counters :
          record[c] = IF C15_CounterKey[c] \in DOMAIN item THEN item[C15_CounterKey[c]] ELSE 0
    /\ \A k \in C15_NumberKeys : record[k] = IF k \in DOMAIN item THEN item[k] ELSE 0
    /\ \A k \in C15_TextKeys : record[k] = IF k \in DOMAIN item THEN item[k] ELSE ""
    /\ "title" \notin DOMAIN item => record.title = ""
    /\ ("author" \notin DOMAIN item /\ "owner" \notin DOMAIN item) => record.author = ""
    /\ "badgepay" \notin DOMAIN item => record.badgepay = FALSE

\* C15: extract_video_data returns for every item: a record with the default
\* in each field the item lacks (counters and numbers 0, texts empty), or the
\* failure value for an item it cannot read; the extraction loop appends the
\* records of the readable items of the page, in order, and passes over the
\* others.
C15_DefaultsAndSkip ==
    /\ Returned("extract_video_data") =>
          /\ ret.kind = "return"
          /\ IF C15_Extractable(arg)
             THEN C15_Defaults(arg, ret.value)
             ELSE ret.value = EmptyDict
    /\ Returned("collect_keyword_data") =>
          LET readable == SelectSeq(arg, C15_Extractable)
          IN  /\ ret.kind = "return"
              /\ Len(ret.value) = Len(readable)
              /\ \A i \in 1..Len(readable) :
                    /\ C15_Defaults(readable[i],
                                    [k \in DOMAIN ret.value[i] \ {"search_keyword", "collected_at"}
                                       |-> ret.value[i][k]])
                    /\ ret.value[i].search_keyword = SEARCH_KEYWORDS[1]

\* C15 witness: a page with an unreadable item followed by an item without
\* any field: one record came out of it, all defaults.
C15_Witness ==
    /\ Returned("collect_keyword_data")
    /\ arg = << MalformedItem, EmptyItem >>
    /\ Len(ret.value) = 1
    /\ ret.value[1].view = 0
    /\ ret.value[1].title = ""

C16_HasNamedOwner(item) ==
    /\ "owner" \in DOMAIN item
    /\ item.owner.t = "dict"
    /\ "name" \in DOMAIN item.owner.v

\* C16: the author of the record is the name of the item's nested owner when
\* the item has a nested owner with a name, also when it has a flat author;
\* it is the flat author when the item has no nested owner.
C16_NestedOwnerFirst ==
    (Returned("extract_video_data") /\ C15_Extractable(arg)) =>
        /\ C16_HasNamedOwner(arg) => ret.value.author = arg.owner.v.name
        /\ ("owner" \notin DOMAIN arg /\ "author" \in DOMAIN arg) =>
              ret.value.author = arg.author

\* C17: after extraction, enrichment and preprocessing, and after the
\* preprocessing of any file, every counter of every record is a number that
\* is not negative.
C17_CountersNotNegative ==
    (Returned("load_data") \/ Returned("_preprocess_data")) =>
        \A i \in 1..Len(ret.value) : \A c \in Counters : ret.value[i][c] >= 0

\* C18: after preprocessing, the engagement score of every record is
\* like*3 + coin*5 + favorite*4 + share*6 + reply*2 of its counters; its
\* engagement rate is 0 when view = 0 and score / view * 100 when view > 0; the
\* record with views 100, likes 10, coins 5, favorites 2, shares 1, comments 3
\* has score 75 and rate 75.
C18_EngagementMetrics ==
    (Returned("load_data") \/ Returned("_preprocess_data")) =>
        \A i \in 1..Len(ret.value) :
            LET r == ret.value[i]
            IN  /\ r.engagement_score =
                      r.like * 3 + r.coin * 5 + r.favorite * 4 + r.share * 6 + r.reply * 2
                /\ r.view = 0 => r.engagement_rate.num = 0 /\ r.engagement_rate.den # 0
                /\ r.view > 0 =>
                      /\ r.engagement_rate.den # 0
                      /\ r.engagement_rate.num * r.view
                           = r.engagement_score * 100 * r.engagement_rate.den
                /\ (r.view = 100 /\ r.like = 10 /\ r.coin = 5 /\ r.favorite = 2
                      /\ r.share = 1 /\ r.reply = 3) =>
                      /\ r.engagement_score = 75
                      /\ r.engagement_rate.num = 75 * r.engagement_rate.den

\* C18 witness: a frame with the record of the example, a record without
\* views that has interactions, and a record whose cells were no numbers.
C18_Witness ==
    /\ Returned("_preprocess_data")
    /\ Len(ret.value) = 3
    /\ ret.value[1].view = 100 /\ ret.value[1].engagement_score = 75
    /\ ret.value[2].view = 0 /\ ret.value[2].engagement_score > 0
    /\ arg[3].view = Str("--") /\ ret.value[3].engagement_score = 27

\* C19: after analyze_sentiment, under every pair of thresholds, the label of
\* every record is positive exactly when its stored score is above the
\* positive cutoff, negative exactly when it is below the negative cutoff and
\* neutral otherwise; a record with an empty title or a failed scoring has
\* score 0.5.
C19_LabelFollowsScore ==
    Returned("analyze_sentiment") =>
        \A i \in 1..Len(ret.value.df) :
            LET r == ret.value.df[i]
            IN  /\ r.sentiment = "positive" <=> r.sentiment_score > arg.threshold.positive
                /\ r.sentiment = "negative" <=> r.sentiment_score < arg.threshold.negative
                /\ r.sentiment \in {"positive", "negative", "neutral"}
                /\ (arg.df[i].title \in {"", "  "} \/ arg.df[i].snow = None) =>
                      r.sentiment_score = 50

C20_Abs(n) == IF n < 0 THEN -n ELSE n

\* C20: the yearly breakdown has an entry for exactly the years with a
\* record, and the percentages of a year's labels sum to 100 within the
\* rounding of the entries (half a hundredth for each).
C20_YearSumsTo100 ==
    Returned("analyze_sentiment") =>
        LET years  == { arg.df[i].year.v : i \in { j \in 1..Len(arg.df) : arg.df[j].year # None } }
            yearly == ret.value.yearly_sentiment
        IN  /\ DOMAIN yearly = years
            /\ \A y \in years :
                  2 * C20_Abs(SumOf(yearly[y]) - 10000) <= Cardinality(DOMAIN yearly[y])

\* C20 witness: a year with a third of its records under each of the three
\* labels, whose rounded percentages sum to 99.99.
C20_Witness ==
    /\ Returned("analyze_sentiment")
    /\ \E y \in DOMAIN ret.value.yearly_sentiment :
          /\ DOMAIN ret.value.yearly_sentiment[y] = {"positive", "negative", "neutral"}
          /\ SumOf(ret.value.yearly_sentiment[y]) = 9999
          /\ \A label \in DOMAIN ret.value.yearly_sentiment[y] :
                ret.value.yearly_sentiment[y][label] = 3333

\* The per-keyword files, and the merged and the enriched file.
KeywordFiles == { KeywordFile(k) : k \in 1..NumKeywords }

DataFiles == { AllVideosFile, EnhancedFile }

Reports(message) == \E i \in DOMAIN log : log[i] = message

\* The process has ended.
Exited == pc = "exit" /\ exit_status # <<>>

\* C21: a run in which a directory could not be created, or the merged or
\* the enriched file (or a log file) could not be opened for writing, ends
\* with a non-zero exit status and does not report that it completed
\* successfully.
C21_FatalFailureEndsRun ==
    (Exited /\ refused \ KeywordFiles # {}) =>
        /\ exit_status # << 0 >>
        /\ ~Reports("Analysis completed successfully")

\* C22: in dry-run mode no step creates a directory, opens a file for
\* writing, issues a network request or runs a phase.
C22_Step ==
    argv.dry_run =>
        /\ dirs' = dirs
        /\ written' = written
        /\ requested' = requested
        /\ csv' = csv
        /\ keyword_files' = keyword_files
        /\ fn' \notin { "collect_only", "run_data_analysis", "run_visualization",
                        "run_full_analysis" }

C22_DryRunNoIO == [][C22_Step]_vars

\* The run found the enriched file of an earlier run and did not touch it.
C23_Cached == EnhancedFile \in DOMAIN csv /\ EnhancedFile \notin written

C23_NothingDone ==
    /\ ~requested
    /\ written \cap (DataFiles \cup KeywordFiles) = {}
    /\ csv = CachedFiles
    /\ \A k \in 1..NumKeywords : keyword_files[k] = 0
    /\ ret = Return(TRUE)

\* C23 as stated: in collect mode, with the enriched file there and no force
\* flag, nothing is requested or written and the phase reports success; with
\* the force flag, collection and enrichment run and the merged and the
\* enriched file are rewritten.
C23_CacheOrForce ==
    (Exited /\ fn = "collect_only") =>
        /\ (~argv.force_recollect /\ C23_Cached) => C23_NothingDone
        /\ argv.force_recollect => (requested /\ DataFiles \subseteq written)

\* C23, amended: in collect mode, with the enriched file there and no force
\* flag, nothing is requested or written and the phase reports success; with
\* the force flag collection runs (requests are issued) whether or not the
\* file is there, the merged and the enriched file have been rewritten
\* whenever the phase reports success, and when collection returns no record
\* the phase reports failure and the enriched file is not written.
C23_CacheOrForceAmended ==
    (Exited /\ fn = "collect_only") =>
        /\ (~argv.force_recollect /\ C23_Cached) => C23_NothingDone
        /\ argv.force_recollect => requested
        /\ (argv.force_recollect /\ ret = Return(TRUE)) => DataFiles \subseteq written
        /\ (argv.force_recollect /\ df = <<>>) =>
              (ret = Return(FALSE) /\ EnhancedFile \notin written)

\* C23 witness: a forced collect run over the files of an earlier run
\* reported success after rewriting both files with what it collected.
C23_Witness ==
    /\ Exited
    /\ fn = "collect_only"
    /\ argv.force_recollect
    /\ ret = Return(TRUE)
    /\ DataFiles \subseteq written
    /\ csv[EnhancedFile] # CachedFiles[EnhancedFile]

\* C24: a run of a mode in which nothing was refused ends after the mode's
\* entry point ran and returned: collect_only for collect, the analysis for
\* analyze, the charting for visualize, the three in turn for full.
C24_ModesReachPhases ==
    (Exited /\ ~argv.dry_run /\ refused = {}) =>
        /\ ret.kind = "return"
        /\ argv.mode = "collect" => fn = "collect_only"
        /\ argv.mode # "collect" => fn \in BilibiliAnalyzer

\* C25: an interrupt delivered during collection or enrichment is not absorbed
\* by the handlers of the page, the keyword or the record: the step that
\* delivers it ends the process with status 1, issues no request and leaves
\* every per-keyword file (and the merged and the enriched file) as it is,
\* and no step follows it.
C25_Step ==
    /\ ~interrupted
    /\ interrupted' =>
          /\ exit_status' = << 1 >>
          /\ pc' = "exit"
          /\ keyword_files' = keyword_files
          /\ csv' = csv
          /\ requested' = requested
          /\ searched' \subseteq searched
          /\ detail_calls' \subseteq detail_calls

C25_InterruptEndsRun == [][C25_Step]_vars

\* C25 witness: the run was interrupted during enrichment, after a keyword's
\* file and the merged file were written and before the enriched file was.
C25_Witness ==
    /\ interrupted
    /\ exit_status = << 1 >>
    /\ \E k \in 1..NumKeywords : keyword_files[k] > 0
    /\ AllVideosFile \in DOMAIN csv
    /\ EnhancedFile \notin DOMAIN csv

\* C26: at every point of collect_keyword_data the keyword's accumulated
\* records number at most max_results_per_keyword.
C26_AtMostMaxResults == Len(all_videos) <= max_results_per_keyword

\* The record collect_keyword_data makes of the item passes the date filter.
C27_PassesFilter(item) ==
    filter_by_date(ExtractPage(<< item >>, SEARCH_KEYWORDS[1], now),
                   start_timestamp, end_timestamp) # <<>>

\* C27: every record that passed the collection date filter gets from
\* preprocessing a year within start_year..end_year, whether it is kept
\* through its pubdate or through the created fallback, and also at the two
\* ends of the window.
C27_YearInsideRange ==
    (Returned("load_data") /\ C27_PassesFilter(arg.item)) =>
        \A i \in DOMAIN ret.value :
            /\ ret.value[i].year # None
            /\ start_year <= ret.value[i].year.v
            /\ ret.value[i].year.v <= end_year

\* C28: with the configured thresholds and scores within [0,1],
\* analyze_sentiment labels no record negative and produces no negative
\* keyword list.
C28_NeverNegative ==
    (Returned("analyze_sentiment") /\ arg.threshold = sentiment_threshold) =>
        /\ \A i \in DOMAIN ret.value.df :
              /\ ret.value.df[i].sentiment_score \in 0..100
              /\ ret.value.df[i].sentiment # "negative"
        /\ "negative_keywords" \notin DOMAIN ret.value

\* C28 witness: under the configured thresholds a title with the lowest score
\* was labelled neutral next to a positive one, and only the positive keyword
\* list was produced.
C28_Witness ==
    /\ Returned("analyze_sentiment")
    /\ arg.threshold = sentiment_threshold
    /\ \E i \in DOMAIN ret.value.df :
          ret.value.df[i].sentiment_score = 0 /\ ret.value.df[i].sentiment = "neutral"
    /\ "positive_keywords" \in DOMAIN ret.value
    /\ "negative_keywords" \notin DOMAIN ret.value

\* The rows of the enriched file whose duration_seconds is a number >= 0.
C29_WithDuration(rows) ==
    { i \in 1..Len(rows) :
        "duration_seconds" \in DOMAIN rows[i] /\ rows[i].duration_seconds >= 0 }

\* C29: in the duration-bucketed statistics every record with a
\* duration_seconds >= 0 is counted in exactly one of the five buckets, so
\* the counts of the buckets add up to the number of these records, duration
\* 0 included.
C29_EveryDurationCounted ==
    (Returned("analyze_engagement_patterns") /\ C29_WithDuration(arg) # {}) =>
        /\ "duration_engagement" \in DOMAIN ret.value
        /\ SumOf([label \in duration_labels |->
                    ret.value.duration_engagement[label].bvid])
             = Cardinality(C29_WithDuration(arg))

C30_Numeric(leaf) == leaf.t \in { "int", "float", "np.integer", "np.floating" }

\* C30: every numeric leaf of the report's overview is a number of the same
\* value in the converted report that is written: a plain integer or float
\* stays one, a numpy integer or float becomes one, none becomes a string.
C30_NumbersStayNumbers ==
    Returned("generate_comprehensive_report") =>
        LET overview == ret.value.report.v.overview.v
            written_overview == ret.value.json_safe_report.v.overview.v
        IN  \A key \in DOMAIN overview :
                C30_Numeric(overview[key]) =>
                    /\ written_overview[key].t \in { "int", "float" }
                    /\ written_overview[key].v = overview[key].v

====
